---- MODULE Spec2Model ----
(***************************************************************************)
(* Elevation streaming of the globe renderer: GlobusTerrain (point height  *)
(* queries, bulk segment loads, the elevation cache and the fetch-dedup    *)
(* table), the loader it posts fetches to and the terrain lock it checks.  *)
(*                                                                         *)
(* Numbers.  Coordinates are integers: longitudes and latitudes in         *)
(* degrees, projected coordinates in units in which mercator.POLE = 180.   *)
(* A JavaScript value that can be a number, NaN or undefined is a record   *)
(* [k, v]; arithmetic on it follows JavaScript (anything with NaN or       *)
(* undefined is NaN).                                                      *)
(***************************************************************************)
EXTENDS Integers, Sequences, FiniteSets, TLC

VARIABLES
    _elevationCache,  \* tileIndex -> [heights, extent]        (this._elevationCache)
    _fetchCache,      \* tileIndex -> promise id               (this._fetchCache)
    promises,         \* the promises _loader.fetch returned, with their then-handlers
    _queue,           \* Loader: requests of load() not started yet
    _loading,         \* Loader: requests of load() in flight
    segments,         \* segment id -> the segment's fields
    terrainLock,      \* the holder keys of planet.terrainLock
    loadHandlers,     \* number of handlers of events.load
    queries,          \* history: the getHeightAsync calls made, in order
    delivered,        \* history: the callback invocations, in order
    fetchLog,         \* history: the network fetches started, of queries and of loads,
                      \*          and the requests the loader took from its queue
    applied,          \* history: load events and segment.applyTerrain calls, in order
    loads,            \* history: the loadTerrain calls made, in order
    stepIndex,        \* MouseNavigation.stepIndex: the zoom steps still to make
    _deactivate,      \* MouseNavigation._deactivate
    lockLog,          \* history: the lock and free calls on planet.terrainLock
    subscribed,       \* MouseNavigation: its handlers are registered with renderer.events
    layerLock,        \* the holder keys of planet.layerLock
    normalMapCreator, \* the holder keys of the lock of planet.normalMapCreator
    wheelLog,         \* history: the wheel events taken, and the indices of the zoom
                      \*          steps applied since the last of them, in order
    _quadTreeList,    \* EarthQuadTreeStrategy: the root nodes
    _urlRewriteCallback, \* GlobusTerrain._urlRewriteCallback
    lastTileXY,       \* history: the last getTileXY call and what it returned
    lastUrl,          \* history: the last _getHTTPRequestString call and what it returned
    lastGround,       \* history: the last ground height taken from a cache entry
    _currPickingColor,  \* RendererEvents.ts, module scope: the current picking colour
    _prevPickingColor,  \* RendererEvents.ts, module scope: the previous picking colour
    __skipFrames__,     \* RendererEvents.ts, module scope: black frames skipped so far
    soloPicking,      \* history: the picking state the readings of the observed
                      \*          RendererEvents instance alone lead to
    lastPick,         \* history: the last handleEvents call of the observed instance
                      \*          and the events it dispatched
    pickLog,          \* history: the consecutive black readings of the picking
                      \*          colour, and the last picking frame of any instance
    mouseState,       \* RendererEvents.mouseState: the flags of the left button
    _lClkBegins,      \* RendererEvents._lClkBegins: the time of the last press, or 0
    _ldblClkBegins,   \* RendererEvents._ldblClkBegins: the time of the first click
                      \*          of a pair, or 0
    now,              \* window.performance.now(), in milliseconds
    mouseLog          \* history: the presses, releases and clicks of the left
                      \*          button and the events dispatched for them

\* the fields of the mouse navigation control and the history of the lock
navVars == << stepIndex, _deactivate, lockLog >>

\* the quad tree strategy, the url rewrite it installs, and their histories
strategyVars == << _quadTreeList, _urlRewriteCallback, lastTileXY, lastUrl >>

\* the terrain provider with its loader, the segments and the terrain lock
terrainVars == << _elevationCache, _fetchCache, promises, _queue, _loading, segments,
                  terrainLock, loadHandlers, queries, delivered, fetchLog, applied, loads >>

\* the picking state of RendererEvents and its histories
pickVars == << _currPickingColor, _prevPickingColor, __skipFrames__, soloPicking, lastPick,
              pickLog >>

\* the registration of the mouse navigation control, the two locks it takes
\* with the terrain lock, and the history of its wheel zoom
ctlVars == << subscribed, layerLock, normalMapCreator, wheelLog >>

\* the mouse state of RendererEvents, the clock and the history of the mouse
mouseVars == << mouseState, _lClkBegins, _ldblClkBegins, now, mouseLog >>

vars == << terrainVars, navVars, strategyVars, lastGround, pickVars, ctlVars, mouseVars >>

----------------------------------------------------------------------------
(* Bounds of the model *)

\* getHeightAsync calls in one behaviour
MaxQueries == 2

\* loadTerrain calls in one behaviour of the specifications with height
\* queries or the lock
MaxLoads == 1

\* loadTerrain calls in one behaviour of the specification of the loader's queue
MaxQueueLoads == 3

\* the history counts the lock calls of a key since its last free up to this
MaxRelocks == 2

----------------------------------------------------------------------------
(* JavaScript numbers *)

Num(n) == [k |-> "num", v |-> n]

NaN == [k |-> "NaN", v |-> 0]

Undefined == [k |-> "undefined", v |-> 0]

IsNum(a) == a.k = "num"

JsAdd(a, b) == IF IsNum(a) /\ IsNum(b) THEN Num(a.v + b.v) ELSE NaN

JsSub(a, b) == IF IsNum(a) /\ IsNum(b) THEN Num(a.v - b.v) ELSE NaN

\* floor(a / b) and ceil(a / b) of the real quotient, b # 0
FloorDiv(a, b) == IF b > 0 THEN a \div b ELSE (0 - a) \div (0 - b)

CeilDiv(a, b) == 0 - FloorDiv(0 - a, b)

\* Math.sqrt of an array length that is a square
Sqrt(n) == CHOOSE r \in 0..n : r * r = n

----------------------------------------------------------------------------
(* Height modes and node states *)

ELL == 0

MSL == 1

GND == 2

NOTRENDERING == 1

RENDERING == 2

----------------------------------------------------------------------------
(* mercator, Extent, Layer.getTileIndex, Geoid *)

POLE == 180

\* mercator.forward of a latitude, on the latitudes the model uses
forwardLat(lat) ==
    CASE lat = 0 -> 0
      [] lat = 41 -> 45
      [] lat = 0 - 41 -> 0 - 45
      [] lat = 66 -> 89
      [] lat = 0 - 66 -> 0 - 89
      [] lat = 85 -> 179
      [] lat = 0 - 85 -> 0 - 179

forward(lonLat) == [lon |-> (lonLat.lon * POLE) \div 180, lat |-> forwardLat(lonLat.lat)]

Pow2(z) == IF z = 0 THEN 1 ELSE IF z = 1 THEN 2 ELSE IF z = 2 THEN 4 ELSE 8

getTileX(lon, z) == FloorDiv((POLE + forward([lon |-> lon, lat |-> 0]).lon) * Pow2(z), 2 * POLE)

getTileY(lat, z) == FloorDiv((POLE - forwardLat(lat)) * Pow2(z), 2 * POLE)

getTileExtent(x, y, z) ==
    LET size == (2 * POLE) \div Pow2(z)
        sw == [lon |-> x * size - POLE, lat |-> POLE - y * size - size]
    IN  [southWest |-> sw, northEast |-> [lon |-> sw.lon + size, lat |-> sw.lat + size]]

getWidth(extent) == extent.northEast.lon - extent.southWest.lon

isInside(extent, p) ==
    /\ p.lon >= extent.southWest.lon /\ p.lon <= extent.northEast.lon
    /\ p.lat >= extent.southWest.lat /\ p.lat <= extent.northEast.lat

getTileIndex(x, y, z) == << x, y, z >>

\* Geoid.getHeightLonLat: the undulation at a point
getHeightLonLat(lonLat) == (lonLat.lon + lonLat.lat) \div 10

----------------------------------------------------------------------------
(* Ground height of a point from a cached tile *)

\* heights[k] of a JavaScript array: undefined outside 0..length-1
At(heights, k) == IF k >= 0 /\ k < Len(heights) THEN Num(heights[k + 1]) ELSE Undefined

\* utils/shared.cartesianToBarycentricLonLat: the weights of p in triangle
\* (a, b, c) as numerators c0, c1, c2 over the common denominator n, and
\* whether p lies in the triangle
cartesianToBarycentricLonLat(p, a, b, c) ==
    LET n  == (b.lat - c.lat) * (a.lon - c.lon) + (c.lon - b.lon) * (a.lat - c.lat)
        nu == (b.lat - c.lat) * (p.lon - c.lon) + (c.lon - b.lon) * (p.lat - c.lat)
        nv == (c.lat - a.lat) * (p.lon - c.lon) + (a.lon - c.lon) * (p.lat - c.lat)
        nw == n - nu - nv
    IN  [n |-> n, c0 |-> nu, c1 |-> nv, c2 |-> nw,
         inside |-> \/ n > 0 /\ nu >= 0 /\ nv >= 0 /\ nw >= 0
                    \/ n < 0 /\ nu <= 0 /\ nv <= 0 /\ nw <= 0]

\* ha * c[0] + hb * c[1] + hc * c[2]
Interpolate(ha, hb, hc, c) ==
    IF IsNum(ha) /\ IsNum(hb) /\ IsNum(hc)
    THEN Num(FloorDiv(ha.v * c.c0 + hb.v * c.c1 + hc.v * c.c2, c.n))
    ELSE NaN

\* lines 226-252: the grid size, the row i and column j of the cell of the
\* point, the four indices read, and the corners v0 and v3 of the cell
cellOf(lonLat, tileData) ==
    LET merc == forward(lonLat)
        w    == getWidth(tileData.extent)
        gs   == Sqrt(Len(tileData.heights))
        size == FloorDiv(w, gs - 1)
        sw   == tileData.extent.southWest
        ne   == tileData.extent.northEast
        i    == gs - CeilDiv(merc.lat - sw.lat, size) - 1
        j    == FloorDiv(merc.lon - sw.lon, size)
        v0Ind == (i + 1) * gs + j
        v2Ind == i * gs + j
        v0 == [lon |-> sw.lon + size * j, lat |-> ne.lat - size * i - size]
    IN  [gs |-> gs, size |-> size, i |-> i, j |-> j,
         v0Ind |-> v0Ind, v1Ind |-> v0Ind + 1, v2Ind |-> v2Ind, v3Ind |-> v2Ind + 1,
         v0 |-> v0, v3 |-> [lon |-> v0.lon + size, lat |-> v0.lat + size]]

_getGroundHeight(lonLat, tileData) ==
    LET merc == forward(lonLat)
        cell == cellOf(lonLat, tileData)
        size == cell.size
        h0 == At(tileData.heights, cell.v0Ind)
        h1 == At(tileData.heights, cell.v1Ind)
        h2 == At(tileData.heights, cell.v2Ind)
        h3 == At(tileData.heights, cell.v3Ind)
        v0 == cell.v0
        v1 == [lon |-> v0.lon + size, lat |-> v0.lat]
        v2 == [lon |-> v0.lon, lat |-> v0.lat + size]
        v3 == cell.v3
        c012 == cartesianToBarycentricLonLat(merc, v0, v1, v2)
        c123 == cartesianToBarycentricLonLat(merc, v1, v2, v3)
    IN  IF c012.inside THEN Interpolate(h0, h1, h2, c012)
        ELSE IF c123.inside THEN Interpolate(h1, h2, h3, c123)
        ELSE Undefined

_createHeights(data) == data

----------------------------------------------------------------------------
(* Configuration and environment *)

\* options.maxZoom
maxZoom == 1

\* options.MAX_LOADING_TILES, as the application configures it; the
\* constructor does not read it
MAX_LOADING_TILES == 1

\* Loader.MAX_REQUESTS: the limit of a loader made by new Loader(), without
\* an argument
MAX_REQUESTS == 2

\* the points, altitudes and modes of the height queries
QueryPoints == { [lon |-> 80, lat |-> 41], [lon |-> 0 - 90, lat |-> 0 - 41] }

AltElls == { 1000 }

HeightModes == { ELL, MSL, GND }

ZeroGrid == [k \in 1..9 |-> 0]

RampGrid == [k \in 1..9 |-> 90 * k]

\* the elevation file the server holds for a tile
ServerData(x, y, z) == IF << x, y, z >> = << 0, 1, 1 >> THEN ZeroGrid ELSE RampGrid

Statuses == { "ready", "error", "abort" }

\* the holder keys of the locks
Keys == { "navigation", "other" }

EPSG3857 == "EPSG3857"

EPSG4326 == "EPSG4326"

\* the segments of the model: one of the mercator band, one of a polar cap
Segs == { 1, 2 }

SegTile(s) ==
    CASE s = 1 -> [tileX |-> 1, tileY |-> 0, tileZoom |-> 1, _projection |-> EPSG3857]
      [] s = 2 -> [tileX |-> 0, tileY |-> 0, tileZoom |-> 1, _projection |-> EPSG4326]

\* the segments whose requests can reach the loader's filter
MercSegs == { s \in Segs : SegTile(s)._projection = EPSG3857 }

\* segment.tileIndex
SegTileIndex(s) == getTileIndex(SegTile(s).tileX, SegTile(s).tileY, SegTile(s).tileZoom)

\* segment.getExtent() of a mercator segment
SegExtent(s) == getTileExtent(SegTile(s).tileX, SegTile(s).tileY, SegTile(s).tileZoom)

----------------------------------------------------------------------------
(* Height queries: getHeightAsync and this._ellToAltFn.  The operators work *)
(* on a record W of the fields a query can touch:                          *)
(*   cache (_elevationCache), fetch (_fetchCache), promises, delivered     *)
(*   (the callback invocations) and fetchLog (the fetches started); lock   *)
(*   (terrainLock) is there for the history: no query reads it.            *)

Remove(f, key) == [k \in DOMAIN f \ {key} |-> f[k]]

\* the cache entry of a tile as a callback finds it: <<>> when there is none
EntryOf(cache, tileIndex) ==
    IF tileIndex \in DOMAIN cache THEN << cache[tileIndex].heights >> ELSE << >>

\* callback(value): sync tells whether the call is made inside getHeightAsync
callback(q, value, tileIndex, sync, W) ==
    [W EXCEPT !.delivered = Append(@, [q |-> q, value |-> value, sync |-> sync,
                                       entry |-> EntryOf(W.cache, tileIndex)])]

\* this._ellToAltFn[ELL]
_ellToAltFn_ELL(q, lonLat, altEll, W) ==
    callback(q, Num(altEll), << >>, TRUE, W)

\* mutant of _ellToAltFn_MSL: the undulation is not subtracted
_ellToAltFn_MSL_NoGeoid(q, lonLat, altEll, W) ==
    callback(q, Num(altEll), << >>, TRUE, W)

\* this._ellToAltFn[MSL]
_ellToAltFn_MSL(q, lonLat, altEll, W) ==
    callback(q, JsSub(Num(altEll), Num(getHeightLonLat(lonLat))), << >>, TRUE, W)

\* this._loader.fetch(...): a new pending promise; the request goes out at once
LoaderFetch(x, y, z, W) ==
    [W EXCEPT !.promises = Append(@, [x |-> x, y |-> y, z |-> z, status |-> "pending",
                                      aborted |-> FALSE, handlers |-> << >>,
                                      resolvedAt |-> 0, before |-> << >>, after |-> << >>,
                                      recordAfter |-> TRUE]),
              !.fetchLog.fetch = Append(@, [kind |-> "fetch", x |-> x, y |-> y, z |-> z,
                                            owner |-> Len(W.promises) + 1,
                                            locked |-> W.lock # {}])]

\* mutant of FetchThen: on "ready" the callback runs before the grid is stored
FetchThen_CallbackBeforeStore(h, response, W) ==
    LET tileIndex == getTileIndex(h.x, h.y, h.z)
        cache == [heights |-> IF response.status = "ready"
                              THEN _createHeights(response.data) ELSE << >>,
                  extent |-> getTileExtent(h.x, h.y, h.z)]
    IN  IF response.status = "ready" THEN
            [callback(h.q, JsSub(Num(h.altEll), JsAdd(_getGroundHeight(h.lonLat, cache), Num(h.altMsl))),
                      tileIndex, FALSE, W)
             EXCEPT !.cache = (tileIndex :> cache) @@ @]
        ELSE IF response.status = "error" THEN
            callback(h.q, JsSub(Num(h.altEll), Num(h.altMsl)), tileIndex, FALSE,
                     [W EXCEPT !.cache = (tileIndex :> cache) @@ @])
        ELSE
            [W EXCEPT !.fetch = Remove(@, tileIndex)]

\* mutant of FetchThen: on "error" nothing is stored, as on "abort"
FetchThen_ErrorNotCached(h, response, W) ==
    LET tileIndex == getTileIndex(h.x, h.y, h.z)
        cache == [heights |-> _createHeights(response.data),
                  extent |-> getTileExtent(h.x, h.y, h.z)]
    IN  IF response.status = "ready" THEN
            callback(h.q, JsSub(Num(h.altEll), JsAdd(_getGroundHeight(h.lonLat, cache), Num(h.altMsl))),
                     tileIndex, FALSE, [W EXCEPT !.cache = (tileIndex :> cache) @@ @])
        ELSE IF response.status = "error" THEN
            callback(h.q, JsSub(Num(h.altEll), Num(h.altMsl)), tileIndex, FALSE,
                     [W EXCEPT !.fetch = Remove(@, tileIndex)])
        ELSE
            [W EXCEPT !.fetch = Remove(@, tileIndex)]

\* mutant of FetchThen: on "abort" the pending record is kept
FetchThen_AbortKeepsRecord(h, response, W) ==
    LET tileIndex == getTileIndex(h.x, h.y, h.z)
        cache == [heights |-> IF response.status = "ready"
                              THEN _createHeights(response.data) ELSE << >>,
                  extent |-> getTileExtent(h.x, h.y, h.z)]
    IN  IF response.status = "ready" THEN
            callback(h.q, JsSub(Num(h.altEll), JsAdd(_getGroundHeight(h.lonLat, cache), Num(h.altMsl))),
                     tileIndex, FALSE, [W EXCEPT !.cache = (tileIndex :> cache) @@ @])
        ELSE IF response.status = "error" THEN
            callback(h.q, JsSub(Num(h.altEll), Num(h.altMsl)), tileIndex, FALSE,
                     [W EXCEPT !.cache = (tileIndex :> cache) @@ @])
        ELSE W

\* mutant of FetchThen: an aborted fetch also drops the tile's cache entry
FetchThen_AbortEvicts(h, response, W) ==
    LET tileIndex == getTileIndex(h.x, h.y, h.z)
    IN  IF response.status = "ready" THEN
            LET cache == [heights |-> _createHeights(response.data),
                          extent |-> getTileExtent(h.x, h.y, h.z)]
                W1 == [W EXCEPT !.cache = (tileIndex :> cache) @@ @]
            IN  callback(h.q, JsSub(Num(h.altEll), JsAdd(_getGroundHeight(h.lonLat, cache), Num(h.altMsl))),
                         tileIndex, FALSE, W1)
        ELSE IF response.status = "error" THEN
            LET cache == [heights |-> << >>, extent |-> getTileExtent(h.x, h.y, h.z)]
                W1 == [W EXCEPT !.cache = (tileIndex :> cache) @@ @]
            IN  callback(h.q, JsSub(Num(h.altEll), Num(h.altMsl)), tileIndex, FALSE, W1)
        ELSE
            [W EXCEPT !.fetch = Remove(@, tileIndex),
                      !.cache = [k \in DOMAIN @ \ { tileIndex } |-> @[k]]]

\* the then-handler of lines 187-209, run with the response of the fetch
FetchThen(h, response, W) ==
    LET tileIndex == getTileIndex(h.x, h.y, h.z)
    IN  IF response.status = "ready" THEN
            LET cache == [heights |-> _createHeights(response.data),
                          extent |-> getTileExtent(h.x, h.y, h.z)]
                W1 == [W EXCEPT !.cache = (tileIndex :> cache) @@ @]
            IN  callback(h.q, JsSub(Num(h.altEll), JsAdd(_getGroundHeight(h.lonLat, cache), Num(h.altMsl))),
                         tileIndex, FALSE, W1)
        ELSE IF response.status = "abort" THEN
            [W EXCEPT !.fetch = Remove(@, tileIndex)]
        ELSE IF response.status = "error" THEN
            LET cache == [heights |-> << >>, extent |-> getTileExtent(h.x, h.y, h.z)]
                W1 == [W EXCEPT !.cache = (tileIndex :> cache) @@ @]
            IN  callback(h.q, JsSub(Num(h.altEll), Num(h.altMsl)), tileIndex, FALSE, W1)
        ELSE
            [W EXCEPT !.fetch = Remove(@, tileIndex)]

\* mutant of GndHit: the ground height is left out
GndHit_NoGround(q, lonLat, altEll, altMsl, tileIndex, W) ==
    callback(q, JsSub(Num(altEll), Num(altMsl)), tileIndex, TRUE, W)

\* the cache-hit branch, lines 171-172
GndHit(q, lonLat, altEll, altMsl, tileIndex, W) ==
    callback(q, JsSub(Num(altEll), JsAdd(_getGroundHeight(lonLat, W.cache[tileIndex]), Num(altMsl))),
             tileIndex, TRUE, W)

\* mutant of GndMiss: the pending-fetch table is not consulted
GndMiss_AlwaysFetch(q, lonLat, altEll, altMsl, x, y, z, W) ==
    LET tileIndex == getTileIndex(x, y, z)
        W1 == [LoaderFetch(x, y, z, W) EXCEPT !.fetch = (tileIndex :> Len(W.promises) + 1) @@ @]
        p  == W1.fetch[tileIndex]
        h  == [q |-> q, lonLat |-> lonLat, altEll |-> altEll, altMsl |-> altMsl,
               x |-> x, y |-> y, z |-> z]
    IN  [W1 EXCEPT !.promises[p].handlers = Append(@, h)]

\* mutant of GndMiss: the continuation runs inside the call, with the grid at hand
GndMiss_ResolvesInCall(q, lonLat, altEll, altMsl, x, y, z, W) ==
    LET tileIndex == getTileIndex(x, y, z)
        W1 == IF tileIndex \notin DOMAIN W.fetch
              THEN [LoaderFetch(x, y, z, W) EXCEPT !.fetch = (tileIndex :> Len(W.promises) + 1) @@ @]
              ELSE W
        p  == W1.fetch[tileIndex]
        h  == [q |-> q, lonLat |-> lonLat, altEll |-> altEll, altMsl |-> altMsl,
               x |-> x, y |-> y, z |-> z]
    IN  FetchThen(h, [status |-> "ready", data |-> ServerData(x, y, z)],
                  [W1 EXCEPT !.promises[p].handlers = Append(@, h)])

\* the cache-miss branch, lines 173-210: fetch unless one is pending, then
\* register the continuation on the promise
GndMiss(q, lonLat, altEll, altMsl, x, y, z, W) ==
    LET tileIndex == getTileIndex(x, y, z)
        W1 == IF tileIndex \notin DOMAIN W.fetch
              THEN [LoaderFetch(x, y, z, W) EXCEPT !.fetch = (tileIndex :> Len(W.promises) + 1) @@ @]
              ELSE W
        p  == W1.fetch[tileIndex]
        h  == [q |-> q, lonLat |-> lonLat, altEll |-> altEll, altMsl |-> altMsl,
               x |-> x, y |-> y, z |-> z]
    IN  [W1 EXCEPT !.promises[p].handlers = Append(@, h)]

\* mutant of _ellToAltFn_GND: the tile is taken one zoom level too low
_ellToAltFn_GND_WrongZoom(q, lonLat, altEll, W) ==
    LET altMsl == getHeightLonLat(lonLat)
        z == maxZoom - 1
        x == getTileX(lonLat.lon, z)
        y == getTileY(lonLat.lat, z)
        tileIndex == getTileIndex(x, y, z)
    IN  IF tileIndex \in DOMAIN W.cache
        THEN GndHit(q, lonLat, altEll, altMsl, tileIndex, W)
        ELSE GndMiss(q, lonLat, altEll, altMsl, x, y, z, W)

\* this._ellToAltFn[GND]
_ellToAltFn_GND(q, lonLat, altEll, W) ==
    LET altMsl == getHeightLonLat(lonLat)
        z == maxZoom
        x == getTileX(lonLat.lon, z)
        y == getTileY(lonLat.lat, z)
        tileIndex == getTileIndex(x, y, z)
    IN  IF tileIndex \in DOMAIN W.cache
        THEN GndHit(q, lonLat, altEll, altMsl, tileIndex, W)
        ELSE GndMiss(q, lonLat, altEll, altMsl, x, y, z, W)

_ellToAltFn(heightMode, q, lonLat, altEll, W) ==
    CASE heightMode = ELL -> _ellToAltFn_ELL(q, lonLat, altEll, W)
      [] heightMode = MSL -> _ellToAltFn_MSL(q, lonLat, altEll, W)
      [] heightMode = GND -> _ellToAltFn_GND(q, lonLat, altEll, W)

\* the fields of the state a query or a resolution works on
World == [cache |-> _elevationCache, fetch |-> _fetchCache, promises |-> promises,
          delivered |-> delivered, fetchLog |-> fetchLog, lock |-> terrainLock]

\* history: which of the cache, the pending-fetch table, the callback log, the
\* fetch log and the apply log a call changed, given their values after it
Touched(after) ==
    { name \in { "cache", "fetch", "delivered", "fetchLog", "applied" } :
        \/ name = "cache" /\ after[1] # _elevationCache
        \/ name = "fetch" /\ after[2] # _fetchCache
        \/ name = "delivered" /\ after[3] # delivered
        \/ name = "fetchLog" /\ \/ after[4].fetch # fetchLog.fetch
                                 \/ after[4].load # fetchLog.load
        \/ name = "applied" /\ after[5] # applied }

\* the tile of a point at maxZoom
TileOf(lonLat) == getTileIndex(getTileX(lonLat.lon, maxZoom), getTileY(lonLat.lat, maxZoom), maxZoom)

\* the pending fetches of height queries for a tile
PendingFor(tileIndex) ==
    { p \in 1..Len(promises) : /\ promises[p].status = "pending"
                               /\ getTileIndex(promises[p].x, promises[p].y, promises[p].z) = tileIndex }

getHeightAsync(heightMode, lonLat, callbackAltEll) ==
    /\ Len(queries) < MaxQueries
    /\ LET q == Len(queries) + 1
           W == _ellToAltFn(heightMode, q, lonLat, callbackAltEll, World)
       IN  /\ _elevationCache' = W.cache
           /\ _fetchCache' = W.fetch
           /\ promises' = W.promises
           /\ delivered' = W.delivered
           /\ fetchLog' = W.fetchLog
           /\ queries' = Append(queries,
                  [mode |-> heightMode, lonLat |-> lonLat, altEll |-> callbackAltEll,
                   hit |-> TileOf(lonLat) \in DOMAIN _elevationCache,
                   pending |-> PendingFor(TileOf(lonLat)),
                   touched |-> Touched(<< W.cache, W.fetch, W.delivered, W.fetchLog, applied >>)])
    /\ UNCHANGED << mouseVars, pickVars, ctlVars, lastGround, strategyVars, navVars, _queue, _loading, segments, terrainLock, loadHandlers, applied, loads >>

\* the then-handlers of a promise run in the order they were registered
RECURSIVE RunHandlers(_, _, _)
RunHandlers(handlers, response, W) ==
    IF handlers = << >> THEN W
    ELSE RunHandlers(Tail(handlers), response, FetchThen(Head(handlers), response, W))

\* a fetch of a height query ends: the promise settles and its handlers run.
\* A fetch that abortLoading cancelled ends with "abort".
ResolveFetch(p, status) ==
    /\ p \in 1..Len(promises)
    /\ promises[p].status = "pending"
    /\ promises[p].aborted => status = "abort"
    /\ LET response == [status |-> status,
                        data |-> ServerData(promises[p].x, promises[p].y, promises[p].z)]
           tileIndex == getTileIndex(promises[p].x, promises[p].y, promises[p].z)
           W0 == [World EXCEPT !.promises[p].status = status]
           W  == RunHandlers(promises[p].handlers, response, W0)
       IN  /\ _elevationCache' = W.cache
           /\ _fetchCache' = W.fetch
           \* history: when the fetch ended, and the tile's cache entry and
           \* pending record before and after
           /\ promises' = [W.promises EXCEPT
                  ![p].resolvedAt = Len(queries),
                  ![p].before = EntryOf(_elevationCache, tileIndex),
                  ![p].after = EntryOf(W.cache, tileIndex),
                  ![p].recordAfter = tileIndex \in DOMAIN W.fetch]
           /\ delivered' = W.delivered
           /\ fetchLog' = W.fetchLog
    /\ UNCHANGED << mouseVars, pickVars, ctlVars, lastGround, strategyVars, navVars, _queue, _loading, segments, terrainLock, loadHandlers, queries, applied, loads >>

----------------------------------------------------------------------------
(* The cache-hit branch on a cache entry of any tile of maxZoom: the entry  *)
(* of the point's own tile, or, as after a rounding mismatch between the   *)
(* tile index and the tile's extent, the entry of another tile.            *)

\* the points asked for
GroundPoints == { [lon |-> lon, lat |-> lat] : lon \in { 0 - 180, 0 - 90, 0, 80, 179 },
                                               lat \in { 0 - 85, 0 - 66, 0 - 41, 0, 41, 66, 85 } }

\* the entries found in the cache
GroundTiles == { [heights |-> heights, extent |-> getTileExtent(x, y, maxZoom)] :
                   heights \in { ZeroGrid, RampGrid }, x \in 0..1, y \in 0..1 }

\* lines 154 and 169-172 with the entry `cache` found under the tile index
groundHit(lonLat, altEll, cache) ==
    LET altMsl == getHeightLonLat(lonLat)
        tileIndex == TileOf(lonLat)
        W == GndHit(0, lonLat, altEll, altMsl, tileIndex,
                    [World EXCEPT !.cache = tileIndex :> cache, !.delivered = << >>])
    IN  /\ lastGround' = << [lonLat |-> lonLat, altEll |-> altEll, altMsl |-> altMsl,
                             cache |-> cache,
                             inside |-> isInside(cache.extent, forward(lonLat)),
                             cell |-> cellOf(lonLat, cache),
                             ground |-> _getGroundHeight(lonLat, cache),
                             value |-> W.delivered[1].value] >>
        /\ UNCHANGED << mouseVars, pickVars, ctlVars, terrainVars, navVars, strategyVars >>

----------------------------------------------------------------------------
(* Lock *)

isFree(lock) == lock = {}

\* mutant of Lock_lock: a second lock by a key that holds the lock is a second
\* hold, which one free does not release
Lock_lock_Counting(holders, key) ==
    IF key \in holders THEN holders \cup { "again" } ELSE holders \cup { key }

\* Lock.lock(key) on the holder set
Lock_lock(holders, key) == holders \cup { key }

\* mutant of Lock_free: the lock is a bare flag, any free releases it
Lock_free_All(holders, key) == { }

\* Lock.free(key) on the holder set
Lock_free(holders, key) == holders \ { key }

\* The lock with its history, N = [lock, log].  The history keeps, per key, the
\* number of lock calls since the key's last free, and of the last free call:
\* its key, its caller, that number, and the holders before and after it.
LockOf(N, key) ==
    [lock |-> Lock_lock(N.lock, key),
     log  |-> [N.log EXCEPT !.relocks[key] = IF @ < MaxRelocks THEN @ + 1 ELSE @]]

FreeOf(N, key, by) ==
    [lock |-> Lock_free(N.lock, key),
     log  |-> [relocks  |-> [N.log.relocks EXCEPT ![key] = 0],
               lastFree |-> << [key |-> key, by |-> by, relocks |-> N.log.relocks[key],
                                before |-> N.lock, after |-> Lock_free(N.lock, key)] >>]]

LockWorld == [lock |-> terrainLock, log |-> lockLog]

\* planet.terrainLock.lock(key), by any holder
lock(key) ==
    /\ terrainLock' = LockOf(LockWorld, key).lock
    /\ lockLog' = LockOf(LockWorld, key).log
    /\ UNCHANGED << mouseVars, pickVars, ctlVars, lastGround, strategyVars, _elevationCache, _fetchCache, promises, _queue, _loading, segments,
                    loadHandlers, queries, delivered, fetchLog, applied, loads,
                    stepIndex, _deactivate >>

\* planet.terrainLock.free(key), by any holder
free(key) ==
    /\ terrainLock' = FreeOf(LockWorld, key, "free").lock
    /\ lockLog' = FreeOf(LockWorld, key, "free").log
    /\ UNCHANGED << mouseVars, pickVars, ctlVars, lastGround, strategyVars, _elevationCache, _fetchCache, promises, _queue, _loading, segments,
                    loadHandlers, queries, delivered, fetchLog, applied, loads,
                    stepIndex, _deactivate >>

----------------------------------------------------------------------------
(* MouseNavigation: the handlers that lock and free planet.terrainLock.    *)
(* The control is active; the camera is not modelled: whether a frame is   *)
(* idle (left button down or no rotation left) and whether the eye moved   *)
(* more than a hundredth of the altitude are inputs of onDraw.             *)

\* this._keyLock
_keyLock == "navigation"

\* this.stepsCount
stepsCount == 5

\* the wheel events the history counts
MaxWheels == 2

\* the layer lock and the lock of the normal map creator, which every handler
\* takes and frees with the terrain lock: K = [layerLock, normalMapCreator]
CtlLocks == [layerLock |-> layerLock, normalMapCreator |-> normalMapCreator]

\* mutant of lockBoth: the normal map creator is not locked
lockBoth_LayerOnly(K) ==
    [K EXCEPT !.layerLock = Lock_lock(@, _keyLock)]

\* layerLock.lock(_keyLock) and normalMapCreator.lock(_keyLock)
lockBoth(K) ==
    [layerLock        |-> Lock_lock(K.layerLock, _keyLock),
     normalMapCreator |-> Lock_lock(K.normalMapCreator, _keyLock)]

\* layerLock.free(_keyLock) and normalMapCreator.free(_keyLock)
freeBoth(K) ==
    [layerLock        |-> Lock_free(K.layerLock, _keyLock),
     normalMapCreator |-> Lock_free(K.normalMapCreator, _keyLock)]

\* the history of a wheel event received
wheelSeen(log) == IF log.wheels < MaxWheels THEN log.wheels + 1 ELSE log.wheels

\* onactivate: the handlers are registered with renderer.events
onactivate ==
    /\ subscribed' = TRUE
    /\ UNCHANGED << mouseVars, pickVars, lastGround, strategyVars, terrainVars, navVars,
                    layerLock, normalMapCreator, wheelLog >>

\* ondeactivate: the handlers are taken off renderer.events, the draw handler
\* with them
ondeactivate ==
    /\ subscribed' = FALSE
    /\ UNCHANGED << mouseVars, pickVars, lastGround, strategyVars, terrainVars, navVars,
                    layerLock, normalMapCreator, wheelLog >>

\* stopRotation as a step of a handler
stopRotationOf(N, by) == FreeOf(N, _keyLock, by)

\* stopRotation, as the click handlers call it
stopRotation ==
    /\ subscribed
    /\ terrainLock' = stopRotationOf(LockWorld, "stopRotation").lock
    /\ lockLog' = stopRotationOf(LockWorld, "stopRotation").log
    /\ layerLock' = freeBoth(CtlLocks).layerLock
    /\ normalMapCreator' = freeBoth(CtlLocks).normalMapCreator
    /\ UNCHANGED << mouseVars, pickVars, lastGround, strategyVars, _elevationCache, _fetchCache, promises, _queue, _loading, segments,
                    loadHandlers, queries, delivered, fetchLog, applied, loads,
                    stepIndex, _deactivate, subscribed, wheelLog >>

\* mutant of wheelTaken: a wheel event is taken while zoom steps remain
wheelTaken_Always(index) == TRUE

\* onMouseWheel takes the event only when no zoom step remains
wheelTaken(index) == index = 0

\* onMouseWheel: an event that comes while zoom steps remain returns at once
onMouseWheel ==
    /\ subscribed
    /\ IF wheelTaken(stepIndex)
       THEN LET N == LockOf(stopRotationOf(LockWorld, "onMouseWheel"), _keyLock)
                K == lockBoth(freeBoth(CtlLocks))
            IN  /\ terrainLock' = N.lock
                /\ lockLog' = N.log
                /\ layerLock' = K.layerLock
                /\ normalMapCreator' = K.normalMapCreator
                /\ _deactivate' = TRUE
                /\ stepIndex' = stepsCount
                /\ wheelLog' = [wheels |-> wheelSeen(wheelLog), steps |-> << >>]
       ELSE /\ wheelLog' = [wheelLog EXCEPT !.wheels = wheelSeen(wheelLog)]
            /\ UNCHANGED << terrainLock, lockLog, layerLock, normalMapCreator,
                            _deactivate, stepIndex >>
    /\ UNCHANGED << mouseVars, pickVars, lastGround, strategyVars, _elevationCache, _fetchCache, promises, _queue, _loading, segments,
                    loadHandlers, queries, delivered, fetchLog, applied, loads, subscribed >>

\* mutant of stepOf: the steps are applied from the last to the first
stepOf_Backwards(index) == index - 1

\* the index into stepsForward of the step a draw applies: stepsCount - stepIndex--
stepOf(index) == stepsCount - index

\* onDraw, a frame of the active control
onDraw(idle, moved) ==
    LET N1 == IF stepIndex = 0 /\ _deactivate
              THEN FreeOf(LockWorld, _keyLock, "onDraw") ELSE LockWorld
        N2 == IF idle THEN N1
              ELSE IF moved THEN LockOf(N1, _keyLock)
              ELSE FreeOf(N1, _keyLock, "onDraw")
        K1 == IF stepIndex = 0 /\ _deactivate THEN freeBoth(CtlLocks) ELSE CtlLocks
        K2 == IF idle THEN K1
              ELSE IF moved THEN lockBoth(K1)
              ELSE freeBoth(K1)
    IN  /\ subscribed
        /\ stepIndex' = IF stepIndex # 0 THEN stepIndex - 1 ELSE stepIndex
        /\ _deactivate' = IF stepIndex = 0 THEN FALSE ELSE _deactivate
        /\ wheelLog' = IF stepIndex # 0
                       THEN [wheelLog EXCEPT !.steps = Append(@, stepOf(stepIndex))]
                       ELSE wheelLog
        /\ terrainLock' = N2.lock
        /\ lockLog' = N2.log
        /\ layerLock' = K2.layerLock
        /\ normalMapCreator' = K2.normalMapCreator
        /\ UNCHANGED << mouseVars, pickVars, lastGround, strategyVars, _elevationCache, _fetchCache, promises, _queue, _loading, segments,
                        loadHandlers, queries, delivered, fetchLog, applied, loads, subscribed >>

----------------------------------------------------------------------------
(* Segment loads: loadTerrain, the Loader's queue, _applyElevationsData.   *)
(* The operators work on a record W of the fields a load can touch:        *)
(*   cache, segs (segments), applied, queue (_queue), loading (_loading),  *)
(*   fetchLog, and handlers (loadHandlers), lock (terrainLock) to read.    *)

\* segment.applyTerrain(elevations): the segment takes the elevations (or none)
\* and is no longer loading.  The history keeps the segment's flags as the
\* call finds them and the number of handlers of the load event.
applyTerrain(segment, elevations, W) ==
    [W EXCEPT !.applied = Append(@, [kind |-> "applyTerrain", segment |-> segment,
                                     elevations |-> elevations,
                                     handlers |-> W.handlers,
                                     terrainReady |-> W.segs[segment].terrainReady,
                                     terrainIsLoading |-> W.segs[segment].terrainIsLoading]),
              !.segs[segment].terrainReady = TRUE,
              !.segs[segment].terrainIsLoading = FALSE]

\* events.dispatch(events.load, {elevations, segment})
dispatchLoad(segment, elevations, W) ==
    [W EXCEPT !.applied = Append(@, [kind |-> "load", segment |-> segment,
                                     elevations |-> elevations,
                                     handlers |-> W.handlers,
                                     terrainReady |-> W.segs[segment].terrainReady,
                                     terrainIsLoading |-> W.segs[segment].terrainIsLoading])]

\* mutant of _applyElevationsData: the segment takes the elevations before the
\* load event is dispatched
_applyElevationsData_ApplyFirst(segment, elevations, W) ==
    LET W1 == applyTerrain(segment, elevations, W)
    IN  IF W.handlers > 0 THEN dispatchLoad(segment, elevations, W1) ELSE W1

\* elevations is << heights >>, or << >> for null
_applyElevationsData(segment, elevations, W) ==
    applyTerrain(segment, elevations,
                 IF W.handlers > 0 THEN dispatchLoad(segment, elevations, W) ELSE W)

\* mutant of loadTerrainCallback: "abort" is handled like "error"
loadTerrainCallback_AbortApplies(req, response, W) ==
    IF response.status = "ready" THEN
        LET heights == _createHeights(response.data)
            W1 == [W EXCEPT !.cache = (SegTileIndex(req.segment) :>
                                         [heights |-> heights, extent |-> SegExtent(req.segment)]) @@ @]
        IN  _applyElevationsData(req.segment, << heights >>, W1)
    ELSE _applyElevationsData(req.segment, << >>, W)

\* the callback loadTerrain passes to the loader, lines 325-340
loadTerrainCallback(req, response, W) ==
    IF response.status = "ready" THEN
        LET heights == _createHeights(response.data)
            W1 == [W EXCEPT !.cache = (SegTileIndex(req.segment) :>
                                         [heights |-> heights, extent |-> SegExtent(req.segment)]) @@ @]
        IN  _applyElevationsData(req.segment, << heights >>, W1)
    ELSE IF response.status = "abort" THEN
        [W EXCEPT !.segs[req.segment].terrainIsLoading = FALSE]
    ELSE IF response.status = "error" THEN
        _applyElevationsData(req.segment, << >>, W)
    ELSE
        [W EXCEPT !.segs[req.segment].terrainIsLoading = FALSE]

\* mutant of filter: forceLoading is not looked at
filter_IgnoresForce(req, W) ==
    W.segs[req.segment].plainReady /\ W.segs[req.segment].nodeState # NOTRENDERING

\* the 'filter' of a request, line 324, evaluated when the request is dequeued
filter(req, W) ==
    \/ W.segs[req.segment].plainReady /\ W.segs[req.segment].nodeState # NOTRENDERING
    \/ req.forceLoading

\* Loader._exec: start the oldest queued request if fewer than MAX_REQUESTS
\* are in flight; a request whose filter fails is answered "abort" unfetched
RECURSIVE _exec(_)
_exec(W) ==
    IF Len(W.queue) > 0 /\ Cardinality(W.loading) < MAX_REQUESTS
    THEN LET req == Head(W.queue)
             \* history: the segment's fields as the filter finds them
             W1  == [W EXCEPT !.queue = Tail(@),
                              !.fetchLog.dequeue = Append(@,
                                  [owner |-> req.id,
                                   plainReady |-> W.segs[req.segment].plainReady,
                                   nodeState |-> W.segs[req.segment].nodeState])]
         IN  IF filter(req, W1)
             THEN [W1 EXCEPT !.loading = @ \cup {[id |-> req.id, segment |-> req.segment,
                                                  forceLoading |-> req.forceLoading,
                                                  aborted |-> FALSE]},
                             !.fetchLog.load = Append(@, [kind |-> "load",
                                                          x |-> SegTile(req.segment).tileX,
                                                          y |-> SegTile(req.segment).tileY,
                                                          z |-> SegTile(req.segment).tileZoom,
                                                          owner |-> req.id,
                                                          locked |-> W.lock # {}])]
             ELSE _exec(loadTerrainCallback(req, [status |-> "abort", data |-> << >>], W1))
    ELSE W

\* Loader.load(params, callback)
LoaderLoad(req, W) == _exec([W EXCEPT !.queue = Append(@, req)])

\* mutant of loadTerrainBody: the terrain lock is not checked
loadTerrainBody_IgnoresLock(id, segment, forceLoading, W) ==
    LET W1 == [W EXCEPT !.segs[segment].terrainReady = FALSE,
                        !.segs[segment].terrainIsLoading = TRUE]
    IN  IF SegTile(segment)._projection = EPSG3857 THEN
            IF SegTileIndex(segment) \in DOMAIN W1.cache
            THEN _applyElevationsData(segment, << W1.cache[SegTileIndex(segment)].heights >>, W1)
            ELSE LoaderLoad([id |-> id, segment |-> segment, forceLoading |-> forceLoading], W1)
        ELSE W1

\* mutant of loadTerrainBody: the elevation cache is not looked at
loadTerrainBody_IgnoresCache(id, segment, forceLoading, W) ==
    IF isFree(W.lock) THEN
        LET W1 == [W EXCEPT !.segs[segment].terrainReady = FALSE,
                            !.segs[segment].terrainIsLoading = TRUE]
        IN  IF SegTile(segment)._projection = EPSG3857
            THEN LoaderLoad([id |-> id, segment |-> segment, forceLoading |-> forceLoading], W1)
            ELSE W1
    ELSE [W EXCEPT !.segs[segment].terrainIsLoading = FALSE]

\* the body of loadTerrain, lines 310-348; id numbers the call
loadTerrainBody(id, segment, forceLoading, W) ==
    IF isFree(W.lock) THEN
        LET W1 == [W EXCEPT !.segs[segment].terrainReady = FALSE,
                            !.segs[segment].terrainIsLoading = TRUE]
        IN  IF SegTile(segment)._projection = EPSG3857 THEN
                IF SegTileIndex(segment) \in DOMAIN W1.cache
                THEN _applyElevationsData(segment, << W1.cache[SegTileIndex(segment)].heights >>, W1)
                ELSE LoaderLoad([id |-> id, segment |-> segment, forceLoading |-> forceLoading], W1)
            ELSE W1
    ELSE [W EXCEPT !.segs[segment].terrainIsLoading = FALSE]

\* history: how the fetch of a loadTerrain call ended and what its callback did:
\* the cache entry of the tile before and after, the load events and
\* applyTerrain calls it made, the segment's terrainReady before it and the
\* segment's flags after it, and the number of loadTerrain calls made by then
NoOutcome == [status |-> "none", before |-> << >>, after |-> << >>, applied |-> << >>,
              terrainReadyBefore |-> FALSE, terrainReady |-> FALSE,
              terrainIsLoading |-> FALSE, resolvedAt |-> 0]

LoadWorld == [cache |-> _elevationCache, segs |-> segments, applied |-> applied,
              queue |-> _queue, loading |-> _loading, fetchLog |-> fetchLog,
              handlers |-> loadHandlers, lock |-> terrainLock]

loadTerrain(segment, forceLoading) ==
    /\ Len(loads) < MaxQueueLoads
    /\ LET W == loadTerrainBody(Len(loads) + 1, segment, forceLoading, LoadWorld)
       IN  /\ _elevationCache' = W.cache
           /\ segments' = W.segs
           /\ applied' = W.applied
           /\ _queue' = W.queue
           /\ _loading' = W.loading
           /\ fetchLog' = W.fetchLog
           /\ loads' = Append(loads, [segment |-> segment, forceLoading |-> forceLoading,
                                  free |-> terrainLock = {},
                                  eligible |-> \/ /\ segments[segment].plainReady
                                                  /\ segments[segment].nodeState # NOTRENDERING
                                               \/ forceLoading,
                                  loadingAfter |-> W.segs[segment].terrainIsLoading,
                                  queued |-> W.queue # _queue \/ W.loading # _loading,
                                  touched |-> Touched(<< W.cache, _fetchCache, delivered,
                                                         W.fetchLog, W.applied >>),
                                  cached |-> EntryOf(_elevationCache, SegTileIndex(segment)),
                                  appliedInCall |-> SubSeq(W.applied, Len(applied) + 1,
                                                           Len(W.applied)),
                                  outcome |-> NoOutcome])
    /\ UNCHANGED << mouseVars, pickVars, ctlVars, lastGround, strategyVars, navVars, _fetchCache, promises, terrainLock, loadHandlers, queries, delivered >>

\* a fetch of a segment load ends: the loader calls the callback, then _exec.
\* A fetch that abortLoading cancelled ends with "abort".
ResolveLoad(r, status) ==
    /\ r \in _loading
    /\ r.aborted => status = "abort"
    /\ LET t  == SegTile(r.segment)
           response == [status |-> status, data |-> ServerData(t.tileX, t.tileY, t.tileZoom)]
           W0 == [LoadWorld EXCEPT !.loading = @ \ {r}]
           W1 == loadTerrainCallback(r, response, W0)
           W  == _exec(W1)
       IN  /\ _elevationCache' = W.cache
           /\ segments' = W.segs
           /\ applied' = W.applied
           /\ _queue' = W.queue
           /\ _loading' = W.loading
           /\ fetchLog' = W.fetchLog
           /\ loads' = [loads EXCEPT ![r.id].outcome =
                  [status |-> status,
                   before |-> EntryOf(_elevationCache, SegTileIndex(r.segment)),
                   after |-> EntryOf(W1.cache, SegTileIndex(r.segment)),
                   applied |-> SubSeq(W1.applied, Len(applied) + 1, Len(W1.applied)),
                   terrainReadyBefore |-> segments[r.segment].terrainReady,
                   terrainReady |-> W1.segs[r.segment].terrainReady,
                   terrainIsLoading |-> W1.segs[r.segment].terrainIsLoading,
                   resolvedAt |-> Len(loads)]]
    /\ UNCHANGED << mouseVars, pickVars, ctlVars, lastGround, strategyVars, navVars, _fetchCache, promises, terrainLock, loadHandlers, queries, delivered >>

\* Loader.abort: every queued request is answered "abort" and forgotten
RECURSIVE AbortQueue(_, _)
AbortQueue(queue, W) ==
    IF queue = << >> THEN [W EXCEPT !.queue = << >>]
    ELSE AbortQueue(Tail(queue),
                    loadTerrainCallback(Head(queue), [status |-> "abort", data |-> << >>], W))

\* abortLoading: this._loader.abort(); the fetches in flight are cancelled and
\* end with "abort"
abortLoading ==
    /\ LET W == AbortQueue(_queue, LoadWorld)
       IN  /\ segments' = W.segs
           /\ _queue' = W.queue
           /\ applied' = W.applied
           /\ _elevationCache' = W.cache
    /\ _loading' = { [r EXCEPT !.aborted = TRUE] : r \in _loading }
    /\ promises' = [p \in 1..Len(promises) |->
                      IF promises[p].status = "pending"
                      THEN [promises[p] EXCEPT !.aborted = TRUE] ELSE promises[p]]
    /\ UNCHANGED << mouseVars, pickVars, ctlVars, lastGround, strategyVars, navVars, _fetchCache, terrainLock, loadHandlers, queries, delivered, fetchLog, loads >>

----------------------------------------------------------------------------
(* The traversal's effect on a segment and its node.  Only the loader's   *)
(* filter reads these fields, so the model moves them for the segments of *)
(* the mercator band alone.                                               *)

\* the node is rendered: its segment's plain geometry exists from then on
renderNode(s) ==
    /\ ~segments[s].plainReady \/ segments[s].nodeState # RENDERING
    /\ segments' = [segments EXCEPT ![s].plainReady = TRUE, ![s].nodeState = RENDERING]
    /\ UNCHANGED << mouseVars, pickVars, ctlVars, lastGround, strategyVars, navVars, _elevationCache, _fetchCache, promises, _queue, _loading, terrainLock,
                    loadHandlers, queries, delivered, fetchLog, applied, loads >>

\* the node leaves the view
setStateNotRendering(s) ==
    /\ segments[s].nodeState # NOTRENDERING
    /\ segments' = [segments EXCEPT ![s].nodeState = NOTRENDERING]
    /\ UNCHANGED << mouseVars, pickVars, ctlVars, lastGround, strategyVars, navVars, _elevationCache, _fetchCache, promises, _queue, _loading, terrainLock,
                    loadHandlers, queries, delivered, fetchLog, applied, loads >>

\* events.on("load", handler): a listener of the load event is registered
onLoad ==
    /\ loadHandlers = 0
    /\ loadHandlers' = 1
    /\ UNCHANGED << mouseVars, pickVars, ctlVars, lastGround, strategyVars, navVars, _elevationCache, _fetchCache, promises, _queue, _loading, segments,
                    terrainLock, queries, delivered, fetchLog, applied, loads >>

----------------------------------------------------------------------------
(* EarthQuadTreeStrategy: the roots, the tile of a point, the terrain url. *)
(* Latitudes are whole degrees, so mercator.MAX_LAT, 85.05..., is 85, and  *)
(* a polar cap is five degrees high.                                       *)

TILEGROUP_COMMON == 0

TILEGROUP_NORTH == 1

TILEGROUP_SOUTH == 2

MAX_LAT == 85

MIN_LAT == 0 - MAX_LAT

POLE2 == 2 * POLE

\* getTileGroupByLat(lat, maxLat) of Segment
getTileGroupByLat(lat, maxLat) ==
    IF lat > maxLat THEN TILEGROUP_NORTH
    ELSE IF lat < 0 - maxLat THEN TILEGROUP_SOUTH
    ELSE TILEGROUP_COMMON

\* Math.round(a / b) of the real quotient, b > 0: the nearest integer, a half
\* goes up
MathRound(a, b) == FloorDiv(2 * a + b, 2 * b)

\* mercator.inverse of the latitudes of the projection's border
inverseLat(y) ==
    CASE y = POLE -> MAX_LAT
      [] y = 0 - POLE -> MIN_LAT

\* a root node: new Node(SegmentPrototype, planet, partId, parent, tileZoom, extent)
Node(segmentPrototype, partId, parentNode, tileZoom, extent) ==
    [segmentPrototype |-> segmentPrototype, partId |-> partId, parentNode |-> parentNode,
     tileZoom |-> tileZoom, extent |-> extent]

\* Extent.createFromArray([west, south, east, north])
createFromArray(arr) ==
    [southWest |-> [lon |-> arr[1], lat |-> arr[2]],
     northEast |-> [lon |-> arr[3], lat |-> arr[4]]]

\* mutant of EarthRoots: the strategy has no root for the south cap
EarthRoots_NoSouthCap ==
    << Node("Segment", 0, "null", 0, createFromArray(<< 0 - POLE, 0 - POLE, POLE, POLE >>)),
       Node("SegmentLonLat", 0, "null", 0, createFromArray(<< 0 - 180, MAX_LAT, 180, 90 >>)) >>

\* the list init assigns to this._quadTreeList, lines 16-26
EarthRoots ==
    << Node("Segment", 0, "null", 0, createFromArray(<< 0 - POLE, 0 - POLE, POLE, POLE >>)),
       Node("SegmentLonLat", 0, "null", 0, createFromArray(<< 0 - 180, MAX_LAT, 180, 90 >>)),
       Node("SegmentLonLat", 0, "null", 0, createFromArray(<< 0 - 180, 0 - 90, 180, MIN_LAT >>)) >>

\* init(): the roots are created and the url rewrite callback is installed
init ==
    /\ _quadTreeList' = EarthRoots
    /\ _urlRewriteCallback' = "getTerrainUrl"
    /\ UNCHANGED << mouseVars, pickVars, ctlVars, lastGround, terrainVars, navVars, lastTileXY, lastUrl >>

\* getTileXY(lonLat, zoom), lines 44-72: [x, y, z, tileGroup]
getTileXY(lonLat, zoom) ==
    LET tileGroup == getTileGroupByLat(lonLat.lat, MAX_LAT)
        z  == zoom
        pz == Pow2(z)
    IN  IF tileGroup = TILEGROUP_NORTH THEN
            << FloorDiv((180 + lonLat.lon) * pz, 360),
               MathRound((90 - lonLat.lat) * pz, 90 - MAX_LAT), z, tileGroup >>
        ELSE IF tileGroup = TILEGROUP_SOUTH THEN
            << FloorDiv((180 + lonLat.lon) * pz, 360),
               MathRound((MIN_LAT - lonLat.lat) * pz, 90 - MAX_LAT), z, tileGroup >>
        ELSE
            LET merc == forward(lonLat)
            IN  << FloorDiv((POLE + merc.lon) * pz, POLE2),
                   FloorDiv((POLE - merc.lat) * pz, POLE2), z, tileGroup >>

\* the points and zooms getTileXY is asked for
TileLons == { 0 - 180, 0 - 90, 0, 80, 179 }

CapLats == 86..90

BandLats == { 0, 41, 66, 85 }

TileLats == BandLats \cup CapLats \cup { 0 - lat : lat \in BandLats \cup CapLats }

TileZooms == 0..2

tileXY(lonLat, zoom) ==
    /\ lastTileXY' = << [lonLat |-> lonLat, zoom |-> zoom, tile |-> getTileXY(lonLat, zoom)] >>
    /\ UNCHANGED << mouseVars, pickVars, ctlVars, lastGround, terrainVars, navVars, _quadTreeList, _urlRewriteCallback, lastUrl >>

\* a JavaScript string, as the sequence of its pieces
Str(pieces) == [k |-> "string", v |-> pieces]

\* this.url, the default template
url == << "//openglobus.org/heights/srtm3/", "{z}", "/", "{y}", "/", "{x}", ".ddm" >>

\* stringTemplate(template, params): every placeholder is replaced by its value
stringTemplate(template, params) ==
    Str([i \in DOMAIN template |->
            IF template[i] \in DOMAIN params THEN params[template[i]] ELSE template[i]])

\* _createUrl(segment), lines 357-363
_createUrl(segment) ==
    stringTemplate(url, ("{x}" :> ToString(segment.tileX)) @@
                        ("{y}" :> ToString(segment.tileY)) @@
                        ("{z}" :> ToString(segment.tileZoom)))

\* getTerrainUrl(tileX, tileY, tileZoom, tileGroup), lines 33-42
getTerrainUrl(tileX, tileY, tileZoom, tileGroup) ==
    LET urlPref == (TILEGROUP_NORTH :> "north") @@ (TILEGROUP_SOUTH :> "south")
    IN  IF tileGroup \in DOMAIN urlPref
        THEN Str(<< "./", urlPref[tileGroup], "/", ToString(tileZoom), "/",
                    ToString(tileX), "/", ToString(tileY), ".png" >>)
        ELSE Undefined

\* the callback init installs, lines 28-30
urlRewriteCallback(segment, createdUrl) ==
    getTerrainUrl(segment.tileX, segment.tileY, segment.tileZoom, segment._tileGroup)

\* _getHTTPRequestString(segment), lines 371-374, with this._urlRewriteCallback
_getHTTPRequestString(segment, cb) ==
    LET createdUrl == _createUrl(segment)
    IN  IF cb # "null" THEN urlRewriteCallback(segment, createdUrl) ELSE createdUrl

\* the segments whose url is asked for
UrlSegments ==
    [tileX : 0..1, tileY : 0..1, tileZoom : { 1 },
     _tileGroup : { TILEGROUP_COMMON, TILEGROUP_NORTH, TILEGROUP_SOUTH }]

\* the 'src' of a request, line 321
requestUrl(segment) ==
    /\ lastUrl' = << [segment |-> segment,
                      installed |-> _urlRewriteCallback # "null",
                      src |-> _getHTTPRequestString(segment, _urlRewriteCallback)] >>
    /\ UNCHANGED << mouseVars, pickVars, ctlVars, lastGround, terrainVars, navVars, _quadTreeList, _urlRewriteCallback, lastTileXY >>

----------------------------------------------------------------------------
(* RendererEvents: entity picking.  A picking colour is a number, 0 is     *)
(* black; every renderer has an object under each colour that is not       *)
(* black.  The picking state is at module scope, one for all instances.    *)

MAX_SKIP_FRAMES_ON_BLACK == 15

\* the colours readPickingColor can give
PickColors == 0..2

\* the RendererEvents instances, one per renderer
Instances == { 1, 2 }

ISBLACK(c) == c = 0

NOTBLACK(c) == c # 0

\* renderer.getPickingObjectArr(c): the object, or none
getPickingObjectArr(c) == IF c \in PickColors \ { 0 } THEN << c >> ELSE << >>

\* if (po) { pe.dispatch(pe.mouseleave, ms); pe.dispatch(pe.touchleave, ts) }
dispatchLeave(po) ==
    IF po = << >> THEN << >>
    ELSE << [name |-> "mouseleave", pickingObject |-> po[1]],
            [name |-> "touchleave", pickingObject |-> po[1]] >>

\* if (co) { ce.dispatch(ce.mouseenter, ms); ce.dispatch(ce.touchenter, ts) }
dispatchEnter(co) ==
    IF co = << >> THEN << >>
    ELSE << [name |-> "mouseenter", pickingObject |-> co[1]],
            [name |-> "touchenter", pickingObject |-> co[1]] >>

\* mutant of entityPickingEvents: one more black frame is skipped
entityPickingEvents_SkipsOneMore(S, t) ==
    IF ISBLACK(t) /\ S.skip <= MAX_SKIP_FRAMES_ON_BLACK
    THEN [c |-> S.c, p |-> S.p, skip |-> S.skip + 1, events |-> << >>]
    ELSE LET p == S.c
             c == t
             co == getPickingObjectArr(c)
             po == getPickingObjectArr(p)
         IN  [c |-> c, p |-> p, skip |-> 0,
              events |-> IF c # p
                         THEN IF ISBLACK(c) THEN dispatchLeave(po)
                              ELSE (IF NOTBLACK(p) THEN dispatchLeave(po) ELSE << >>)
                                   \o dispatchEnter(co)
                         ELSE << >>]

\* entityPickingEvents, lines 707-784, on the picking state S = [c, p, skip]
\* with the colour t read and no button held: the state after it and the
\* events dispatched
entityPickingEvents(S, t) ==
    IF ISBLACK(t) /\ S.skip < MAX_SKIP_FRAMES_ON_BLACK
    THEN [c |-> S.c, p |-> S.p, skip |-> S.skip + 1, events |-> << >>]
    ELSE LET p == S.c
             c == t
             co == getPickingObjectArr(c)
             po == getPickingObjectArr(p)
         IN  [c |-> c, p |-> p, skip |-> 0,
              events |-> IF c # p
                         THEN IF ISBLACK(c) THEN dispatchLeave(po)
                              ELSE (IF NOTBLACK(p) THEN dispatchLeave(po) ELSE << >>)
                                   \o dispatchEnter(co)
                         ELSE << >>]

\* the picking state at module scope
Picking == [c |-> _currPickingColor, p |-> _prevPickingColor, skip |-> __skipFrames__]

\* the instance whose events the histories follow
Observed == 1

\* the history counts the consecutive black readings up to the frame after
\* the first one that is not skipped
MaxBlackRun == MAX_SKIP_FRAMES_ON_BLACK + 2

\* handleEvents() of instance i in a frame in which its renderer reads the
\* picking colour t; hold: a mouse button is held
handleEvents(i, t, hold) ==
    LET R == IF hold THEN Picking @@ [events |-> << >>] ELSE entityPickingEvents(Picking, t)
        A == IF hold THEN soloPicking @@ [events |-> << >>]
             ELSE entityPickingEvents(soloPicking, t)
    IN  /\ _currPickingColor' = R.c
        /\ _prevPickingColor' = R.p
        /\ __skipFrames__' = R.skip
        /\ IF i = Observed
           THEN /\ soloPicking' = [c |-> A.c, p |-> A.p, skip |-> A.skip]
                /\ lastPick' = << [t |-> t, hold |-> hold, events |-> R.events,
                                   solo |-> A.events] >>
           ELSE UNCHANGED << soloPicking, lastPick >>
        /\ IF hold THEN UNCHANGED pickLog
           ELSE pickLog' =
                  [run  |-> IF ISBLACK(t)
                            THEN (IF pickLog.run < MaxBlackRun THEN pickLog.run + 1
                                  ELSE pickLog.run)
                            ELSE 0,
                   last |-> << [t |-> t, run |-> pickLog.run,
                                before |-> [c |-> _currPickingColor, p |-> _prevPickingColor],
                                after |-> [c |-> R.c, p |-> R.p, skip |-> R.skip],
                                events |-> R.events] >>]
        /\ UNCHANGED << mouseVars, ctlVars, terrainVars, navVars, strategyVars, lastGround >>

----------------------------------------------------------------------------
(* RendererEvents: the left mouse button.  The handlers of the browser's   *)
(* mouse events set flags in mouseState; handleMouseEvents, once a frame,  *)
(* dispatches the events the flags stand for.  The right and the middle    *)
(* button have the same code with their own flags.  Every event comes at   *)
(* the same place of the canvas, so the click radius never resets a click. *)

\* mouseState.doubleClickDelay
doubleClickDelay == 500

\* mouseState.clickDelay
clickDelay == 200

\* the time between two readings of window.performance.now() that differ
Tick == 250

\* the clock stops after MaxTicks ticks
MaxTicks == 5

\* the clicks the history keeps
MaxClicks == 3

Capped(n, max) == IF n < max THEN n + 1 ELSE n

\* the history before any mouse event:
\*   pressed   the button is down, as far as the events tell
\*   seen      the frames that saw the press in progress (at most 2 counted)
\*   downs     ldown events dispatched since the press in progress began
\*   released  the button was released at least once
\*   ups       lup events dispatched since the last release
\*   open      an ldown was dispatched and no lup since
\*   unpaired  an ldown was dispatched while another one was open
\*   frame     the last frame: the events it dispatched, in `ev`; whether it
\*             found the button down, and the value of `seen` it found
\*   clicks    the clicks, in order: the time, and whether the click set the
\*             double click flag
\*   lclicks, ldblclicks   the lclick and ldblclick events dispatched
NoMouseLog ==
    [pressed |-> FALSE, seen |-> 0, downs |-> 0, released |-> FALSE, ups |-> 0,
     open |-> FALSE, unpaired |-> FALSE, frame |-> << >>,
     clicks |-> << >>, lclicks |-> 0, ldblclicks |-> 0]

\* the mouse fields one handler works on
Mouse == [ms |-> mouseState, lClk |-> _lClkBegins, ldbl |-> _ldblClkBegins]

\* mutant of updateButtonsStates: the flags are left alone
updateButtonsStates_Keeps(ms, left) == ms

\* updateButtonsStates(buttons), for the left button: left is buttons & LB_M
updateButtonsStates(ms, left) ==
    IF left /\ ms.leftButtonDown
    THEN [ms EXCEPT !.leftButtonDown = TRUE]
    ELSE [ms EXCEPT !.leftButtonHold = FALSE, !.leftButtonDown = FALSE]

\* onMouseDown of the left button at time t
MouseDown(M, t) ==
    [M EXCEPT !.lClk = t, !.ms.leftButtonDown = TRUE]

\* whether the release at time t ends a click: at the place of the press and
\* no later than clickDelay after it
IsClick(M, t) == t - M.lClk <= clickDelay

\* mutant of MouseUp: the second click of a pair is kept as the first click
\* of the next pair
MouseUp_KeepsSecond(M, t) ==
    LET released == [M EXCEPT !.ms.leftButtonDown = FALSE, !.ms.leftButtonUp = TRUE]
    IN  IF IsClick(M, t)
        THEN [released EXCEPT
                !.ms.leftButtonDoubleClick =
                    IF M.ldbl # 0 /\ t - M.ldbl <= doubleClickDelay THEN TRUE ELSE @,
                !.ldbl = t,
                !.ms.leftButtonClick = TRUE,
                !.lClk = 0]
        ELSE released

\* onMouseUp of the left button at time t, lines 543-564
MouseUp(M, t) ==
    LET released == [M EXCEPT !.ms.leftButtonDown = FALSE, !.ms.leftButtonUp = TRUE]
    IN  IF IsClick(M, t)
        THEN [released EXCEPT
                !.ms.leftButtonDoubleClick =
                    IF M.ldbl # 0 /\ t - M.ldbl <= doubleClickDelay THEN TRUE ELSE @,
                !.ldbl = IF M.ldbl # 0 THEN 0 ELSE t,
                !.ms.leftButtonClick = TRUE,
                !.lClk = 0]
        ELSE released

\* mutant of DispatchedOf: a frame that finds the button down dispatches lhold
\* also when it dispatches ldown
DispatchedOf_DownAndHold(ms) ==
    (IF ms.leftButtonClick THEN { "lclick" } ELSE {})
      \cup (IF ms.leftButtonDown THEN { "lhold" } ELSE {})
      \cup (IF ms.leftButtonDown /\ ~ms.leftButtonHold THEN { "ldown" } ELSE {})
      \cup (IF ms.leftButtonUp THEN { "lup" } ELSE {})
      \cup (IF ms.leftButtonDoubleClick THEN { "ldblclick" } ELSE {})

\* the events handleMouseEvents dispatches for the left button
DispatchedOf(ms) ==
    (IF ms.leftButtonClick THEN { "lclick" } ELSE {})
      \cup (IF ms.leftButtonDown /\ ms.leftButtonHold THEN { "lhold" } ELSE {})
      \cup (IF ms.leftButtonDown /\ ~ms.leftButtonHold THEN { "ldown" } ELSE {})
      \cup (IF ms.leftButtonUp THEN { "lup" } ELSE {})
      \cup (IF ms.leftButtonDoubleClick THEN { "ldblclick" } ELSE {})

\* the flags as handleMouseEvents leaves them
FlagsAfterFrame(ms) ==
    [ms EXCEPT !.leftButtonClick = FALSE,
               !.leftButtonHold = IF ms.leftButtonUp THEN FALSE
                                  ELSE IF ms.leftButtonDown THEN TRUE ELSE @,
               !.leftButtonUp = FALSE,
               !.leftButtonDoubleClick = FALSE]

\* the clock moves on
tick ==
    /\ now < Tick * MaxTicks
    /\ now' = now + Tick
    /\ UNCHANGED << terrainVars, navVars, strategyVars, lastGround, pickVars, ctlVars,
                    mouseState, _lClkBegins, _ldblClkBegins, mouseLog >>

\* onMouseDown: the left button goes down on the canvas
onMouseDown ==
    /\ ~mouseLog.pressed
    /\ LET M == MouseDown(Mouse, now)
       IN  /\ mouseState' = M.ms
           /\ _lClkBegins' = M.lClk
           /\ _ldblClkBegins' = M.ldbl
    /\ mouseLog' = [mouseLog EXCEPT !.pressed = TRUE, !.seen = 0, !.downs = 0]
    /\ UNCHANGED << terrainVars, navVars, strategyVars, lastGround, pickVars, ctlVars, now >>

\* onMouseUp: the left button goes up on the canvas
onMouseUp ==
    /\ mouseLog.pressed
    /\ LET M == MouseUp(Mouse, now)
           fresh == MouseUp([Mouse EXCEPT !.ms.leftButtonDoubleClick = FALSE], now)
       IN  /\ mouseState' = M.ms
           /\ _lClkBegins' = M.lClk
           /\ _ldblClkBegins' = M.ldbl
           /\ mouseLog' = [mouseLog EXCEPT
                  !.pressed = FALSE, !.released = TRUE, !.ups = 0,
                  !.clicks = IF M.ms.leftButtonClick /\ M.lClk = 0 /\ IsClick(Mouse, now)
                                /\ Len(@) < MaxClicks
                             THEN Append(@, [t |-> now,
                                             dbl |-> fresh.ms.leftButtonDoubleClick])
                             ELSE @]
    /\ UNCHANGED << terrainVars, navVars, strategyVars, lastGround, pickVars, ctlVars, now >>

\* onMouseMove, of which the model keeps the call of updateButtonsStates: the
\* event reports the left button down (left) or up; it reports it up when the
\* button was released off the canvas, where no mouseup event is delivered
onMouseMove(left) ==
    /\ left => mouseLog.pressed
    /\ mouseState' = updateButtonsStates(mouseState, left)
    /\ mouseLog' = [mouseLog EXCEPT !.pressed = left]
    /\ UNCHANGED << terrainVars, navVars, strategyVars, lastGround, pickVars, ctlVars,
                    _lClkBegins, _ldblClkBegins, now >>

\* handleMouseEvents: a frame
handleMouseEvents ==
    LET ev == DispatchedOf(mouseState)
    IN  /\ mouseState' = FlagsAfterFrame(mouseState)
        /\ mouseLog' = [mouseLog EXCEPT
               !.seen = IF mouseState.leftButtonDown THEN Capped(@, 2) ELSE @,
               !.downs = IF "ldown" \in ev THEN Capped(@, 2) ELSE @,
               !.ups = IF "lup" \in ev THEN Capped(@, 2) ELSE @,
               !.unpaired = @ \/ ("ldown" \in ev /\ mouseLog.open),
               !.open = IF "lup" \in ev THEN FALSE
                        ELSE IF "ldown" \in ev THEN TRUE ELSE @,
               !.frame = << [ev |-> ev, down |-> mouseState.leftButtonDown,
                             seen |-> mouseLog.seen] >>,
               !.lclicks = IF "lclick" \in ev THEN Capped(@, MaxClicks) ELSE @,
               !.ldblclicks = IF "ldblclick" \in ev THEN Capped(@, MaxClicks) ELSE @]
        /\ UNCHANGED << terrainVars, navVars, strategyVars, lastGround, pickVars, ctlVars,
                        _lClkBegins, _ldblClkBegins, now >>

----------------------------------------------------------------------------
(* The state machine *)

Init ==
    /\ _elevationCache = << >>
    /\ _fetchCache = << >>
    /\ promises = << >>
    /\ _queue = << >>
    /\ _loading = {}
    /\ segments = [s \in Segs |-> [plainReady |-> FALSE, nodeState |-> NOTRENDERING,
                                   terrainReady |-> FALSE, terrainIsLoading |-> FALSE]]
    /\ terrainLock = {}
    /\ loadHandlers = 0
    /\ queries = << >>
    /\ delivered = << >>
    /\ fetchLog = [fetch |-> << >>, load |-> << >>, dequeue |-> << >>]
    /\ applied = << >>
    /\ loads = << >>
    /\ stepIndex = 0
    /\ _deactivate = FALSE
    /\ lockLog = [relocks |-> [k \in Keys |-> 0], lastFree |-> << >>]
    /\ subscribed = TRUE
    /\ layerLock = {}
    /\ normalMapCreator = {}
    /\ wheelLog = [wheels |-> 0, steps |-> << >>]
    /\ _quadTreeList = << >>
    /\ _urlRewriteCallback = "null"
    /\ lastTileXY = << >>
    /\ lastUrl = << >>
    /\ lastGround = << >>
    /\ _currPickingColor = 0
    /\ _prevPickingColor = 0
    /\ __skipFrames__ = 0
    /\ soloPicking = [c |-> 0, p |-> 0, skip |-> 0]
    /\ lastPick = << >>
    /\ pickLog = [run |-> 0, last |-> << >>]
    /\ mouseState = [leftButtonDown |-> FALSE, leftButtonHold |-> FALSE,
                     leftButtonUp |-> FALSE, leftButtonClick |-> FALSE,
                     leftButtonDoubleClick |-> FALSE]
    /\ _lClkBegins = 0
    /\ _ldblClkBegins = 0
    /\ now = Tick
    /\ mouseLog = NoMouseLog

Next ==
    \/ \E heightMode \in HeightModes, lonLat \in QueryPoints, altEll \in AltElls :
           getHeightAsync(heightMode, lonLat, altEll)
    \/ \E p \in 1..Len(promises), status \in Statuses : ResolveFetch(p, status)
    \/ \E s \in Segs, forceLoading \in BOOLEAN : loadTerrain(s, forceLoading)
    \/ \E r \in _loading, status \in Statuses : ResolveLoad(r, status)
    \/ abortLoading
    \/ \E key \in Keys : lock(key)
    \/ \E key \in Keys : free(key)
    \/ \E s \in MercSegs : renderNode(s)
    \/ \E s \in MercSegs : setStateNotRendering(s)
    \/ onLoad
    \/ tick
    \/ onMouseDown
    \/ onMouseUp
    \/ \E left \in BOOLEAN : onMouseMove(left)
    \/ handleMouseEvents
    \/ onactivate
    \/ ondeactivate
    \/ stopRotation
    \/ onMouseWheel
    \/ \E idle, moved \in BOOLEAN : onDraw(idle, moved)
    \/ init
    \/ \E lon \in TileLons, lat \in TileLats, zoom \in TileZooms :
           tileXY([lon |-> lon, lat |-> lat], zoom)
    \/ \E segment \in UrlSegments : requestUrl(segment)
    \/ \E lonLat \in GroundPoints, altEll \in AltElls, cache \in GroundTiles :
           groundHit(lonLat, altEll, cache)
    \/ \E i \in Instances, t \in PickColors, hold \in BOOLEAN : handleEvents(i, t, hold)

Spec == Init /\ [][Next]_vars

\* The height queries with the segment loads they share the cache with; the
\* lock stays free, the nodes are not traversed, the load event has no
\* listener and there are at most MaxLoads segment loads.  The steps left out change only terrainLock, the listeners and
\* the segments' plainReady and nodeState, which no height query reads.
NextQuery ==
    \/ \E lonLat \in QueryPoints, altEll \in AltElls : getHeightAsync(GND, lonLat, altEll)
    \/ \E p \in 1..Len(promises), status \in Statuses : ResolveFetch(p, status)
    \/ \E s \in MercSegs : Len(loads) < MaxLoads /\ loadTerrain(s, TRUE)
    \/ \E r \in _loading, status \in Statuses : ResolveLoad(r, status)
    \/ abortLoading

SpecQuery == Init /\ [][NextQuery]_vars

\* The height queries of all three modes, without the segment loads.
NextModes ==
    \/ \E heightMode \in HeightModes, lonLat \in QueryPoints, altEll \in AltElls :
           getHeightAsync(heightMode, lonLat, altEll)
    \/ \E p \in 1..Len(promises), status \in Statuses : ResolveFetch(p, status)
    \/ abortLoading

SpecModes == Init /\ [][NextModes]_vars

\* The segment loads alone, with the lock, held by a subsystem other than the
\* mouse navigation, and the traversal; at most MaxLoads segment loads.
NextLoad ==
    \/ \E s \in Segs, forceLoading \in BOOLEAN :
           Len(loads) < MaxLoads /\ loadTerrain(s, forceLoading)
    \/ \E r \in _loading, status \in Statuses : ResolveLoad(r, status)
    \/ abortLoading
    \/ \E key \in Keys \ { _keyLock } : lock(key)
    \/ \E key \in Keys \ { _keyLock } : free(key)
    \/ \E s \in MercSegs : renderNode(s)
    \/ \E s \in MercSegs : setStateNotRendering(s)
    \/ onLoad

SpecLoad == Init /\ [][NextLoad]_vars

\* The segment loads in which every fetch in flight ends: the loader's
\* requests are answered by the network sooner or later.
SpecLoadLive ==
    Init /\ [][NextLoad]_vars
         /\ WF_vars(\E r \in _loading, status \in Statuses : ResolveLoad(r, status))

\* The terrain lock with its holders: the mouse navigation control, which alone
\* uses its key, and another subsystem; and the segment loads that ask the lock.
NextLock ==
    \/ \E key \in Keys \ { _keyLock } : lock(key)
    \/ \E key \in Keys \ { _keyLock } : free(key)
    \/ stopRotation
    \/ onMouseWheel
    \/ \E idle, moved \in BOOLEAN : onDraw(idle, moved)
    \/ \E s \in Segs, forceLoading \in BOOLEAN :
           Len(loads) < MaxLoads /\ loadTerrain(s, forceLoading)

SpecLock == Init /\ [][NextLock]_vars

\* The mouse navigation control alone, with the three locks it takes: it is
\* activated and deactivated, wheel events and clicks arrive, frames are drawn;
\* another subsystem holds and frees the terrain lock under its own key.
NextNav ==
    \/ onactivate
    \/ ondeactivate
    \/ stopRotation
    \/ onMouseWheel
    \/ \E idle, moved \in BOOLEAN : onDraw(idle, moved)
    \/ \E key \in Keys \ { _keyLock } : lock(key)
    \/ \E key \in Keys \ { _keyLock } : free(key)

SpecNav == Init /\ [][NextNav]_vars

\* The same with finitely many wheel events, and with the frames the renderer
\* keeps drawing: as long as the draw handler is registered, frames in which
\* the button is up and the eye moves by no more than the threshold keep
\* coming, since the inertia of a rotation decays by this.inertia per frame.
NextNavLive ==
    \/ onactivate
    \/ ondeactivate
    \/ stopRotation
    \/ wheelLog.wheels < MaxWheels /\ onMouseWheel
    \/ \E idle, moved \in BOOLEAN : onDraw(idle, moved)
    \/ \E key \in Keys \ { _keyLock } : lock(key)
    \/ \E key \in Keys \ { _keyLock } : free(key)

SpecNavLive ==
    Init /\ [][NextNavLive]_vars /\ WF_vars(onDraw(FALSE, FALSE))

\* The loader's queue: up to MaxQueueLoads loads of the segments of the
\* mercator band, with the traversal; the lock stays free, the load event
\* has no listener, loading is not stopped and no fetch is cancelled.
NextQueue ==
    \/ \E s \in MercSegs, forceLoading \in BOOLEAN : loadTerrain(s, forceLoading)
    \/ \E r \in _loading, status \in { "ready", "error" } : ResolveLoad(r, status)
    \/ \E s \in MercSegs : renderNode(s)
    \/ \E s \in MercSegs : setStateNotRendering(s)

SpecQueue == Init /\ [][NextQueue]_vars

\* Ground-mode queries and segment loads under the terrain lock, held by a
\* subsystem other than the mouse navigation; the nodes are not traversed and
\* the load event has no listener.
NextLocked ==
    \/ \E lonLat \in QueryPoints, altEll \in AltElls : getHeightAsync(GND, lonLat, altEll)
    \/ \E p \in 1..Len(promises), status \in Statuses : ResolveFetch(p, status)
    \/ \E s \in Segs, forceLoading \in BOOLEAN :
           Len(loads) < MaxLoads /\ loadTerrain(s, forceLoading)
    \/ \E r \in _loading, status \in Statuses : ResolveLoad(r, status)
    \/ \E key \in Keys \ { _keyLock } : lock(key)
    \/ \E key \in Keys \ { _keyLock } : free(key)

SpecLocked == Init /\ [][NextLocked]_vars

\* The quad tree strategy of the Earth alone: its roots, the tiles of points
\* and the urls of segments.
NextStrategy ==
    \/ init
    \/ \E lon \in TileLons, lat \in TileLats, zoom \in TileZooms :
           tileXY([lon |-> lon, lat |-> lat], zoom)
    \/ \E segment \in UrlSegments : requestUrl(segment)

SpecStrategy == Init /\ [][NextStrategy]_vars

\* The ground height of a point from a cache entry, alone.
NextGround ==
    \E lonLat \in GroundPoints, altEll \in AltElls, cache \in GroundTiles :
        groundHit(lonLat, altEll, cache)

SpecGround == Init /\ [][NextGround]_vars

\* One mouse button over the canvas: the button is pressed and released on
\* the canvas, the mouse moves with the button down, frames are handled.
NextPress ==
    \/ onMouseDown
    \/ onMouseUp
    \/ onMouseMove(TRUE)
    \/ handleMouseEvents

SpecPress == Init /\ [][NextPress]_vars

\* The same when a frame handles every release before the next press.
NextPressFramed ==
    \/ ~mouseState.leftButtonUp /\ onMouseDown
    \/ onMouseUp
    \/ onMouseMove(TRUE)
    \/ handleMouseEvents

SpecPressFramed == Init /\ [][NextPressFramed]_vars

\* The same with the moves that report the button up: the button was released
\* off the canvas.
NextMouse ==
    \/ onMouseDown
    \/ onMouseUp
    \/ \E left \in BOOLEAN : onMouseMove(left)
    \/ handleMouseEvents

SpecMouse == Init /\ [][NextMouse]_vars

\* Clicks of the left button in time: the mouse does not move.
NextClick ==
    \/ tick
    \/ onMouseDown
    \/ onMouseUp
    \/ handleMouseEvents

SpecClick == Init /\ [][NextClick]_vars

\* The entity picking of two renderers that share the page.
NextPick ==
    \E i \in Instances, t \in PickColors, hold \in BOOLEAN : handleEvents(i, t, hold)

SpecPick == Init /\ [][NextPick]_vars

----------------------------------------------------------------------------
(* What the histories say *)

Promises == 1..Len(promises)

Queries == 1..Len(queries)

TileOfPromise(p) == getTileIndex(promises[p].x, promises[p].y, promises[p].z)

\* the callback invocations a query received
DeliveredTo(q) == { i \in 1..Len(delivered) : delivered[i].q = q }

\* the promises a query registered a continuation on
AttachedTo(q) ==
    { p \in Promises : \E i \in 1..Len(promises[p].handlers) : promises[p].handlers[i].q = q }

\* the queries registered on a promise
HandlersOf(p) == { promises[p].handlers[i].q : i \in 1..Len(promises[p].handlers) }

\* the query started a network fetch
Issued(q) == "fetchLog" \in queries[q].touched

GndQueries == { q \in Queries : queries[q].mode = GND }

\* the first ground-mode query for a tile made after the fetch p ended
NextQueryAfter(p) ==
    { q \in GndQueries :
        /\ q > promises[p].resolvedAt
        /\ TileOf(queries[q].lonLat) = TileOfPromise(p)
        /\ \A q2 \in GndQueries : q2 > promises[p].resolvedAt /\ q2 < q
                                  => TileOf(queries[q2].lonLat) # TileOfPromise(p) }

\* a segment load fetched the tile
LoadFetched(tileIndex) ==
    \E i \in 1..Len(fetchLog.load) :
        getTileIndex(fetchLog.load[i].x, fetchLog.load[i].y, fetchLog.load[i].z) = tileIndex

\* altEll - undulation of a query
MslEstimate(q) == Num(queries[q].altEll - getHeightLonLat(queries[q].lonLat))

----------------------------------------------------------------------------
(* C1 *)

\* At most one fetch of height queries is pending per tile index.
OneFetchPerTile ==
    \A p1, p2 \in Promises :
        promises[p1].status = "pending" /\ promises[p2].status = "pending"
        /\ TileOfPromise(p1) = TileOfPromise(p2) => p1 = p2

----------------------------------------------------------------------------
(* C2 *)

\* C2: when a fetch of height queries ends "ready", the decoded grid is in the
\* cache under the tile index, and every callback registered on the fetch has
\* been invoked exactly once, outside getHeightAsync, with the entry in place.
C2_ReadyStoresThenCallsBack ==
    \A p \in Promises :
        promises[p].status = "ready" =>
            /\ TileOfPromise(p) \in DOMAIN _elevationCache
            /\ promises[p].after = << _createHeights(ServerData(promises[p].x, promises[p].y, promises[p].z)) >>
            /\ \A q \in HandlersOf(p) :
                   /\ Cardinality(DeliveredTo(q)) = 1
                   /\ \A i \in DeliveredTo(q) :
                          /\ ~delivered[i].sync
                          /\ delivered[i].entry = promises[p].after

\* a fetch with two registered callbacks ended "ready"
C2_Witness ==
    \E p \in Promises : promises[p].status = "ready" /\ Cardinality(HandlersOf(p)) = 2

----------------------------------------------------------------------------
(* C3 *)

\* C3: when a fetch of height queries ends "error", a no-data entry (no heights)
\* is stored for the tile index, every callback registered on the fetch has been
\* invoked exactly once with altEll - undulation, and no later ground-mode query
\* for the index starts a fetch.
C3_ErrorStoresSentinel ==
    \A p \in Promises :
        promises[p].status = "error" =>
            /\ promises[p].after = << << >> >>
            /\ TileOfPromise(p) \in DOMAIN _elevationCache
            /\ \A q \in HandlersOf(p) :
                   /\ Cardinality(DeliveredTo(q)) = 1
                   /\ \A i \in DeliveredTo(q) : delivered[i].value = MslEstimate(q)
            /\ \A q \in GndQueries :
                   q > promises[p].resolvedAt /\ TileOf(queries[q].lonLat) = TileOfPromise(p)
                   => ~Issued(q)

\* a fetch ended "error" and a later query asked for the same tile
C3_Witness ==
    \E p \in Promises :
        /\ promises[p].status = "error"
        /\ \E q \in GndQueries : /\ q > promises[p].resolvedAt
                                 /\ TileOf(queries[q].lonLat) = TileOfPromise(p)

----------------------------------------------------------------------------
(* C4 *)

\* what C4 says of an "abort" apart from the next query: the pending record is
\* gone, the cache entry of the tile is as before, no registered callback runs
AbortClearsPendingOnly(p) ==
    /\ ~promises[p].recordAfter
    /\ promises[p].after = promises[p].before
    /\ \A q \in HandlersOf(p) : DeliveredTo(q) = {}
    /\ TileOfPromise(p) \in DOMAIN _fetchCache => _fetchCache[TileOfPromise(p)] # p

\* C4 as stated: after a fetch of height queries ends "abort", the pending
\* record is removed, no cache entry is created, no callback is invoked, and
\* the next ground-mode query for the index starts a fresh fetch.
C4_Original ==
    \A p \in Promises :
        promises[p].status = "abort" =>
            /\ AbortClearsPendingOnly(p)
            /\ \A q \in NextQueryAfter(p) : Issued(q)

\* C4, amended: as stated, except that the next ground-mode query for the index
\* starts a fresh fetch only if the index is still not cached; when a segment
\* load has cached it in the meantime, the query is answered from the cache.
C4_AbortAllowsRetry ==
    \A p \in Promises :
        promises[p].status = "abort" =>
            /\ AbortClearsPendingOnly(p)
            /\ \A q \in NextQueryAfter(p) :
                   IF queries[q].hit
                   THEN ~Issued(q) /\ LoadFetched(TileOfPromise(p))
                   ELSE Issued(q) /\ AttachedTo(q) # {} /\ AttachedTo(q) \cap {p} = {}

\* a fetch was aborted by abortLoading and the next query fetched again
C4_Witness ==
    \E p \in Promises :
        /\ promises[p].status = "abort" /\ promises[p].aborted
        /\ \E q \in NextQueryAfter(p) : Issued(q)

----------------------------------------------------------------------------
(* C5 *)

\* q1 was answered by the fetch resolution that created the cache entry of its
\* tile, and q2 repeats it (same point, mode and altitude) once the tile is cached
RepeatsAnswered(q1, q2) ==
    /\ q1 < q2
    /\ queries[q1].mode = GND /\ queries[q2].mode = GND
    /\ queries[q1].lonLat = queries[q2].lonLat
    /\ queries[q1].altEll = queries[q2].altEll
    /\ \E p \in AttachedTo(q1) : /\ promises[p].status \in { "ready", "error" }
                                 /\ promises[p].before = << >>
                                 /\ promises[p].resolvedAt < q2

\* C5 as stated: once a tile index has a cache entry (a decoded grid or the entry
\* stored after a fetch error), a repeated query gets the same result as the
\* query answered when the entry was created, and starts no fetch.
C5_Idempotent ==
    \A q1, q2 \in Queries :
        RepeatsAnswered(q1, q2) =>
            /\ ~Issued(q2)
            /\ \A i \in DeliveredTo(q1), j \in DeliveredTo(q2) :
                   delivered[j].value = delivered[i].value

----------------------------------------------------------------------------
(* C6 *)

\* altEll - (groundHeight + undulation) of query q on a cache entry with these heights
GroundEstimate(q, heights) ==
    LET lonLat == queries[q].lonLat
        tileData == [heights |-> heights,
                     extent |-> getTileExtent(getTileX(lonLat.lon, maxZoom),
                                              getTileY(lonLat.lat, maxZoom), maxZoom)]
    IN  JsSub(Num(queries[q].altEll),
              JsAdd(_getGroundHeight(lonLat, tileData), Num(getHeightLonLat(lonLat))))

\* C6: a ground-mode query whose tile index is cached invokes its callback
\* exactly once, inside the call, with altEll - (groundHeight + undulation);
\* it starts no fetch, registers nothing and leaves the cache and the
\* pending-fetch table as they were.
C6_HitAnswersInsideCall ==
    \A q \in GndQueries :
        queries[q].hit =>
            /\ queries[q].touched = { "delivered" }
            /\ AttachedTo(q) = {}
            /\ Cardinality(DeliveredTo(q)) = 1
            /\ \A i \in DeliveredTo(q) :
                   /\ delivered[i].sync
                   /\ delivered[i].entry # << >>
                   /\ delivered[i].value = GroundEstimate(q, delivered[i].entry[1])

\* a query hit a cached grid and got a height whose ground term is not zero
C6_Witness ==
    \E q \in GndQueries :
        /\ queries[q].hit
        /\ \E i \in DeliveredTo(q) : /\ IsNum(delivered[i].value)
                                     /\ delivered[i].value # MslEstimate(q)

----------------------------------------------------------------------------
(* C7 *)

\* C7: an ELLIPSOID query invokes the callback exactly once with the altitude
\* unchanged, an MSL query exactly once with altEll - undulation, both inside
\* the call; neither starts a fetch or changes the cache or the pending-fetch
\* table.
C7_EllAndMslAnswerDirectly ==
    \A q \in Queries :
        queries[q].mode \in { ELL, MSL } =>
            /\ queries[q].touched = { "delivered" }
            /\ AttachedTo(q) = {}
            /\ Cardinality(DeliveredTo(q)) = 1
            /\ \A i \in DeliveredTo(q) :
                   /\ delivered[i].sync
                   /\ delivered[i].value = IF queries[q].mode = ELL
                                           THEN Num(queries[q].altEll)
                                           ELSE MslEstimate(q)

\* an MSL query was made while the fetch of an earlier ground-mode query was pending
C7_Witness ==
    \E q \in Queries :
        /\ queries[q].mode = MSL
        /\ DeliveredTo(q) # {}
        /\ \E p \in Promises : promises[p].status = "pending"

----------------------------------------------------------------------------
(* C8 *)

\* the fetches the log holds for promise p
FetchesFor(p) ==
    { i \in 1..Len(fetchLog.fetch) : fetchLog.fetch[i].owner = p }

\* C8: a ground-mode query for a tile that is neither cached nor being fetched
\* returns without invoking the callback and starts exactly one fetch, for the
\* tile (x, y, maxZoom) whose extent contains the query point; when that fetch
\* ends "ready" with an all-zero grid the callback gets altEll - undulation.
C8_MissFetchesOnce ==
    \A q \in GndQueries :
        ~queries[q].hit /\ queries[q].pending = {} =>
            /\ queries[q].touched = { "fetch", "fetchLog" }
            /\ Cardinality(AttachedTo(q)) = 1
            /\ \A p \in AttachedTo(q) :
                   /\ Cardinality(FetchesFor(p)) = 1
                   /\ \A i \in FetchesFor(p) :
                          /\ fetchLog.fetch[i].z = maxZoom
                          /\ isInside(getTileExtent(fetchLog.fetch[i].x, fetchLog.fetch[i].y,
                                                    fetchLog.fetch[i].z),
                                      forward(queries[q].lonLat))
                   /\ promises[p].status = "pending" => DeliveredTo(q) = {}
                   /\ promises[p].status = "ready"
                      /\ ServerData(promises[p].x, promises[p].y, promises[p].z) = ZeroGrid
                      => /\ Cardinality(DeliveredTo(q)) = 1
                         /\ \A i \in DeliveredTo(q) : delivered[i].value = MslEstimate(q)

\* the fetch of such a query ended "ready" with the all-zero grid
C8_Witness ==
    \E q \in GndQueries :
        /\ ~queries[q].hit /\ queries[q].pending = {}
        /\ \E p \in AttachedTo(q) :
               /\ promises[p].status = "ready"
               /\ ServerData(promises[p].x, promises[p].y, promises[p].z) = ZeroGrid
               /\ DeliveredTo(q) # {}

----------------------------------------------------------------------------
(* C9 *)

Loads == 1..Len(loads)

\* C9: a getHeightAsync call that starts a fetch returns without a callback
\* invocation and without a cache write, and a loadTerrain call that starts a
\* fetch returns without a cache write, a load event or an applyTerrain: what
\* the fetch brings happens in a later step.
C9_ContinuationNotInIssuingCall ==
    /\ \A q \in Queries :
           Issued(q) => queries[q].touched \cap { "delivered", "cache", "applied" } = {}
    /\ \A l \in Loads :
           "fetchLog" \in loads[l].touched
           => loads[l].touched \cap { "delivered", "cache", "applied" } = {}

\* a height query and a segment load have each started a fetch
C9_Witness ==
    /\ \E q \in Queries : Issued(q)
    /\ \E l \in Loads : "fetchLog" \in loads[l].touched

----------------------------------------------------------------------------
(* C10 *)

\* C10: loadTerrain called while the terrain lock is engaged leaves the segment
\* marked not loading, queues and starts no fetch, writes no cache entry,
\* applies no elevations and fires no load event; the request is not kept:
\* whatever happens later (the lock freed, the node rendered), no fetch is
\* queued or started for that call.
C10_LockedLoadIsRejected ==
    \A l \in Loads :
        ~loads[l].free =>
            /\ ~loads[l].loadingAfter
            /\ ~loads[l].queued
            /\ loads[l].touched = {}
            /\ \A i \in 1..Len(_queue) : _queue[i].id # l
            /\ \A r \in _loading : r.id # l
            /\ \A i \in 1..Len(fetchLog.load) : fetchLog.load[i].owner # l

\* a load was refused, and later the lock is free and the segment is eligible
C10_Witness ==
    \E l \in Loads :
        /\ ~loads[l].free
        /\ terrainLock = {}
        /\ loads[l].segment \in MercSegs
        /\ segments[loads[l].segment].plainReady
        /\ segments[loads[l].segment].nodeState = RENDERING

----------------------------------------------------------------------------
(* C11 *)

\* C11 as stated: no elevation fetch, of a segment load or of a ground-mode
\* query, is started while the terrain lock has a holder.
C11_NoFetchWhileLocked ==
    /\ \A i \in 1..Len(fetchLog.fetch) : ~fetchLog.fetch[i].locked
    /\ \A i \in 1..Len(fetchLog.load) : ~fetchLog.load[i].locked

----------------------------------------------------------------------------
(* C12 *)

\* the loadTerrain calls whose fetch has ended with the given status
LoadsEnded(status) == { l \in Loads : loads[l].outcome.status = status }

\* C12: when the fetch of a segment load ends "abort", the cache entry of the
\* segment's tile is as before (none is created), no applyTerrain is made and
\* no load event is fired; the segment is marked not loading and its
\* terrainReady stays as it was.
C12_LoadAbortOnlyClearsLoading ==
    \A l \in LoadsEnded("abort") :
        /\ loads[l].outcome.after = loads[l].outcome.before
        /\ loads[l].outcome.applied = << >>
        /\ ~loads[l].outcome.terrainIsLoading
        /\ loads[l].outcome.terrainReady = loads[l].outcome.terrainReadyBefore

\* the fetch of a load, cancelled by abortLoading, ended "abort" with a
\* listener of the load event registered and the tile not cached
C12_Witness ==
    \E l \in LoadsEnded("abort") :
        /\ loadHandlers > 0
        /\ loads[l].outcome.before = << >>
        /\ SegTileIndex(loads[l].segment) \notin DOMAIN _elevationCache

----------------------------------------------------------------------------
(* C13 *)

\* the network fetch of loadTerrain call l, if one was started
LoadFetchesOf(l) == { i \in 1..Len(fetchLog.load) : fetchLog.load[i].owner = l }

\* the loadTerrain calls for the tile of call l made after the fetch of l ended
LaterLoadsOf(l) ==
    { l2 \in Loads : /\ l2 > loads[l].outcome.resolvedAt
                     /\ SegTileIndex(loads[l2].segment) = SegTileIndex(loads[l].segment) }

\* C13 as stated: when the fetch of a segment load ends "error", the tile index
\* has a cache entry afterwards, and no later loadTerrain call for the index
\* starts a fetch.
C13_LoadErrorCachesSentinel ==
    \A l \in LoadsEnded("error") :
        /\ loads[l].outcome.after # << >>
        /\ \A l2 \in LaterLoadsOf(l) : LoadFetchesOf(l2) = {}

----------------------------------------------------------------------------
(* C14 *)

\* C14 as stated: per tile index at most one fetch is in flight, counting the
\* fetches of ground-mode queries and those of segment loads together, and the
\* cache entry of an index is never written by the resolutions of two
\* different fetches.
C14_DedupSharedByQueriesAndLoads ==
    /\ OneFetchPerTile
    /\ \A r1, r2 \in _loading :
           SegTileIndex(r1.segment) = SegTileIndex(r2.segment) => r1 = r2
    /\ \A p \in Promises, r \in _loading :
           promises[p].status = "pending" => TileOfPromise(p) # SegTileIndex(r.segment)
    /\ \A p \in Promises, l \in LoadsEnded("ready") :
           promises[p].status = "ready" /\ HandlersOf(p) # {}
           => TileOfPromise(p) # SegTileIndex(loads[l].segment)

----------------------------------------------------------------------------
(* C15 *)

\* the requests the loader has taken from its queue
Dequeues == 1..Len(fetchLog.dequeue)

\* the eligibility predicate of the request of dequeue d, on the segment's
\* fields at the time it was dequeued
EligibleAtDequeue(d) ==
    \/ fetchLog.dequeue[d].plainReady /\ fetchLog.dequeue[d].nodeState # NOTRENDERING
    \/ loads[fetchLog.dequeue[d].owner].forceLoading

\* C15: a request is fetched only when it is dequeued, and then exactly if
\* (segment.plainReady and the node state is not NOTRENDERING) or forceLoading
\* holds at that time; otherwise it is dropped: never fetched and kept neither
\* in the queue nor among the requests in flight.
C15_FilterDecidesAtDequeue ==
    /\ \A l \in Loads :
           LoadFetchesOf(l) # {} => \E d \in Dequeues : fetchLog.dequeue[d].owner = l
    /\ \A d \in Dequeues :
           LET l == fetchLog.dequeue[d].owner
           IN  IF EligibleAtDequeue(d)
               THEN Cardinality(LoadFetchesOf(l)) = 1
               ELSE /\ LoadFetchesOf(l) = {}
                    /\ \A i \in 1..Len(_queue) : _queue[i].id # l
                    /\ \A r \in _loading : r.id # l

\* a request that was eligible when loadTerrain was called waited in the queue
\* and was dropped at dequeue time
C15_Witness ==
    \E d \in Dequeues :
        /\ loads[fetchLog.dequeue[d].owner].eligible
        /\ ~EligibleAtDequeue(d)
        /\ LoadFetchesOf(fetchLog.dequeue[d].owner) = {}

----------------------------------------------------------------------------
(* C16 *)

\* C16 as stated: never more than options.MAX_LOADING_TILES fetches of segment
\* loads are in flight, and the fetches are started in the order of the
\* loadTerrain calls.
C16_InFlightWithinConfiguredMaximum ==
    /\ Cardinality(_loading) <= MAX_LOADING_TILES
    /\ \A i, j \in 1..Len(fetchLog.load) :
           i < j => fetchLog.load[i].owner < fetchLog.load[j].owner

----------------------------------------------------------------------------
(* C17 *)

\* the load events the callback of the fetch of loadTerrain call l fired
LoadEventsOf(l) ==
    { i \in 1..Len(loads[l].outcome.applied) : loads[l].outcome.applied[i].kind = "load" }

\* C17 as stated: a fetch that ends "ready" fires at most one load event, which
\* carries the decoded elevations and the segment; a fetch that ends "error"
\* or "abort" fires none.
C17_LoadEventOnlyOnSuccess ==
    /\ \A l \in LoadsEnded("ready") :
           /\ Cardinality(LoadEventsOf(l)) <= 1
           /\ \A i \in LoadEventsOf(l) :
                  /\ loads[l].outcome.applied[i].elevations = loads[l].outcome.after
                  /\ loads[l].outcome.applied[i].segment = loads[l].segment
    /\ \A l \in LoadsEnded("error") \cup LoadsEnded("abort") : LoadEventsOf(l) = {}

----------------------------------------------------------------------------
(* C18 *)

\* the loader has had requests and has none left, queued or in flight
QueueDrained == Len(fetchLog.dequeue) > 0 /\ _queue = << >> /\ _loading = {}

\* C18 as stated: when the loader's requests have all finished or been stopped,
\* a loadend event has been fired.
C18_LoadendWhenQueueDrains ==
    QueueDrained => \E i \in 1..Len(applied) : applied[i].kind = "loadend"

----------------------------------------------------------------------------
(* C19 *)

\* the last free call on the lock, if there was one
LastFree == { lockLog.lastFree[i] : i \in 1..Len(lockLog.lastFree) }

\* C19: isFree() is true exactly if no key holds the lock, and loadTerrain
\* accepted a request (left the segment loading or handed the request to the
\* loader) exactly if no key held the lock; a free call by one of two holders leaves the lock
\* engaged, and a free call by a key that does not hold the lock changes
\* nothing.
C19_LockInvariant ==
    /\ isFree(terrainLock) <=> \A key \in Keys : key \notin terrainLock
    /\ \A l \in Loads :
           loads[l].free <=> \/ loads[l].loadingAfter
                             \/ \E d \in Dequeues : fetchLog.dequeue[d].owner = l
    /\ \A f \in LastFree :
           /\ Cardinality(f.before) >= 2 => ~isFree(f.after)
           /\ f.key \in f.before => f.after = f.before \ { f.key }
           /\ f.key \notin f.before => f.after = f.before

\* one of two holders has freed the lock
C19_Witness ==
    \E f \in LastFree : Cardinality(f.before) = 2 /\ f.key \in f.before

----------------------------------------------------------------------------
(* C20 *)

----------------------------------------------------------------------------
\* C21: the mouse navigation holds the terrain lock under its key for the
\* whole of the camera motion it drives: while wheel-zoom steps remain
\* (stepIndex > 0) its key is a holder of terrainLock, whatever mouse events
\* arrive in between.
C21_HeldWhileStepsRemain ==
    stepIndex > 0 => _keyLock \in terrainLock

----------------------------------------------------------------------------
\* tileExtent(x, y, zoom, group) contains the point.  A tile of the main band
\* has mercator.getTileExtent; a cap is cut into 2^zoom rows and columns, its
\* rows counted from the pole (north) or from the main band (south), so that
\* the tile of zoom 0 is the cap's root.
tileExtentContains(tile, lonLat) ==
    LET x == tile[1]
        y == tile[2]
        pz == Pow2(tile[3])
        capHeight == 90 - MAX_LAT
        column == (180 + lonLat.lon) * pz
        row == IF tile[4] = TILEGROUP_NORTH THEN (90 - lonLat.lat) * pz
               ELSE (MIN_LAT - lonLat.lat) * pz
    IN  IF tile[4] = TILEGROUP_COMMON
        THEN isInside(getTileExtent(x, y, tile[3]), forward(lonLat))
        ELSE /\ x * 360 <= column /\ column <= (x + 1) * 360
             /\ y * capHeight <= row /\ row <= (y + 1) * capHeight

\* C22: the tile getTileXY returns for a point and a zoom contains the point
\* in its extent, in the main band and in both polar caps.
C22_TileContainsPoint ==
    \A i \in DOMAIN lastTileXY :
        tileExtentContains(lastTileXY[i].tile, lastTileXY[i].lonLat)

----------------------------------------------------------------------------
\* the extent of a root in degrees: a root of the main band has its extent in
\* projected coordinates
RootExtentLonLat(node) ==
    IF node.segmentPrototype = "Segment"
    THEN [southWest |-> [lon |-> (node.extent.southWest.lon * 180) \div POLE,
                         lat |-> inverseLat(node.extent.southWest.lat)],
          northEast |-> [lon |-> (node.extent.northEast.lon * 180) \div POLE,
                         lat |-> inverseLat(node.extent.northEast.lat)]]
    ELSE node.extent

\* two extents share more than a border
Overlap(e1, e2) ==
    /\ e1.southWest.lon < e2.northEast.lon /\ e2.southWest.lon < e1.northEast.lon
    /\ e1.southWest.lat < e2.northEast.lat /\ e2.southWest.lat < e1.northEast.lat

\* the points of the whole surface, on the grid of whole degrees of latitude
Surface == { [lon |-> lon, lat |-> lat] : lon \in TileLons \cup { 180 }, lat \in (0 - 90)..90 }

\* C23: once init has run the strategy owns exactly three roots, each of zoom
\* 0 and without a parent; no two of their extents share more than a border
\* and every point of the surface lies in one of them.
C23_ThreeRootsPartitionSurface ==
    _quadTreeList # << >> =>
        /\ Len(_quadTreeList) = 3
        /\ \A i \in DOMAIN _quadTreeList :
               _quadTreeList[i].tileZoom = 0 /\ _quadTreeList[i].parentNode = "null"
        /\ \A i, j \in DOMAIN _quadTreeList :
               i # j => ~Overlap(RootExtentLonLat(_quadTreeList[i]),
                                 RootExtentLonLat(_quadTreeList[j]))
        /\ \A p \in Surface :
               \E i \in DOMAIN _quadTreeList : isInside(RootExtentLonLat(_quadTreeList[i]), p)

\* init has run: the strategy has its roots
C23_Witness ==
    /\ Len(_quadTreeList) = 3
    /\ _urlRewriteCallback = "getTerrainUrl"

----------------------------------------------------------------------------
\* C24: once the Earth strategy has installed its rewrite callback, the url
\* requested for a segment of the main band is still the template with {x},
\* {y}, {z} replaced by the segment's tileX, tileY, tileZoom, never undefined.
C24_MainBandUrlIsTemplate ==
    \A i \in DOMAIN lastUrl :
        lastUrl[i].installed /\ lastUrl[i].segment._tileGroup = TILEGROUP_COMMON =>
            /\ lastUrl[i].src.k = "string"
            /\ lastUrl[i].src = _createUrl(lastUrl[i].segment)

----------------------------------------------------------------------------
----------------------------------------------------------------------------
\* C26: no eviction.  No step (a height query, a loadTerrain call, the
\* resolution of a fetch as ready, error or abort, abortLoading) removes a tile
\* index from the elevation cache: an index once cached stays cached.
C26_NoEviction ==
    [][DOMAIN _elevationCache \subseteq DOMAIN _elevationCache']_vars

\* a fetch of a height query was aborted when its tile was already cached
C26_Witness ==
    \E p \in Promises :
        /\ promises[p].status = "abort"
        /\ promises[p].before # << >>
        /\ TileOfPromise(p) \in DOMAIN _elevationCache

----------------------------------------------------------------------------
\* C27: picking state is scoped to one renderer session.  The enter and leave
\* events a RendererEvents instance dispatches in handleEvents are those its
\* own sequence of picking readings leads to, whether or not another instance
\* ran handleEvents in between.
C27_PickingScopedToInstance ==
    \A k \in DOMAIN lastPick : lastPick[k].events = lastPick[k].solo

----------------------------------------------------------------------------
\* C28: once a tile index holds a decoded height grid, no step (the resolution
\* of a fetch of a height query or of a segment load, in any interleaving)
\* replaces the entry by the no-data entry or by a grid of other heights.
C28_DecodedGridNeverReplaced ==
    [][\A tileIndex \in DOMAIN _elevationCache :
           _elevationCache[tileIndex].heights # << >> =>
               /\ tileIndex \in DOMAIN _elevationCache'
               /\ _elevationCache'[tileIndex].heights = _elevationCache[tileIndex].heights]_vars

----------------------------------------------------------------------------
\* the applyTerrain calls made inside loadTerrain call l
AppliesInCall(l) ==
    { i \in 1..Len(loads[l].appliedInCall) : loads[l].appliedInCall[i].kind = "applyTerrain" }

\* loadTerrain call l was accepted for a segment of the main band whose tile
\* index was cached
LoadsOfCachedTile ==
    { l \in Loads : /\ loads[l].free
                    /\ SegTile(loads[l].segment)._projection = EPSG3857
                    /\ loads[l].cached # << >> }

\* C29: the elevation cache is shared by both call paths.  A loadTerrain call
\* accepted for a segment of the main band whose tile index is cached, by a
\* point query or by an earlier loadTerrain, posts no request and starts no
\* fetch; it applies the cached heights to the segment inside the call, once,
\* and the segment has terrainReady = false and terrainIsLoading = true by
\* then.
C29_LoadTerrainUsesSharedCache ==
    \A l \in LoadsOfCachedTile :
        /\ ~loads[l].queued
        /\ loads[l].touched \cap { "fetchLog", "cache" } = {}
        /\ Cardinality(AppliesInCall(l)) = 1
        /\ \A i \in AppliesInCall(l) :
               /\ loads[l].appliedInCall[i].segment = loads[l].segment
               /\ loads[l].appliedInCall[i].elevations = loads[l].cached
               /\ ~loads[l].appliedInCall[i].terrainReady
               /\ loads[l].appliedInCall[i].terrainIsLoading

\* a segment load found the grid that the fetch of a point query had cached
C29_Witness ==
    \E l \in LoadsOfCachedTile :
        /\ \E p \in Promises : /\ promises[p].status = "ready"
                               /\ HandlersOf(p) # {}
                               /\ TileOfPromise(p) = SegTileIndex(loads[l].segment)
                               /\ promises[p].after = loads[l].cached
        /\ \A l2 \in Loads : l2 >= l
        /\ AppliesInCall(l) # {}

----------------------------------------------------------------------------
\* the applyTerrain calls and the load events of the history
Applies == { i \in 1..Len(applied) : applied[i].kind = "applyTerrain" }

LoadEvents == { i \in 1..Len(applied) : applied[i].kind = "load" }

\* C30: every applyTerrain call made while the load event has a handler comes
\* right after a dispatch of the load event with the same elevations and the
\* same segment; with no handler the call is made without a dispatch; and no
\* load event is dispatched without the applyTerrain call that follows it.
C30_LoadEventBeforeApply ==
    /\ \A i \in Applies :
           IF applied[i].handlers > 0
           THEN /\ i - 1 \in LoadEvents
                /\ applied[i - 1].elevations = applied[i].elevations
                /\ applied[i - 1].segment = applied[i].segment
           ELSE i - 1 \notin LoadEvents
    /\ \A i \in LoadEvents : i + 1 \in Applies

\* decoded elevations were applied to a segment with a handler listening
C30_Witness ==
    \E i \in Applies : /\ applied[i].handlers > 0
                       /\ applied[i].elevations # << >>
                       /\ i - 1 \in LoadEvents

----------------------------------------------------------------------------
\* C31: provided every fetch in flight ends, a segment that an accepted
\* loadTerrain call marked loading is not marked loading for ever: elevations
\* are applied to it or its terrainIsLoading is set back to false, for a
\* segment of the main band and for one of a polar cap.
C31_AcceptedLoadEnds ==
    \A s \in Segs : segments[s].terrainIsLoading ~> ~segments[s].terrainIsLoading

\* C32: every lock the mouse navigation acquires is released in the end: while
\* frames keep being drawn and only finitely many wheel events arrive, a state
\* in which the navigation key holds terrainLock is followed by a state in
\* which it does not, also when the control is deactivated while it holds it.
C32_LockReleasedInTheEnd ==
    (_keyLock \in terrainLock) ~> (_keyLock \notin terrainLock)

\* as long as the control stays registered the lock is released
C32_ReleasedWhileRegistered ==
    (_keyLock \in terrainLock) ~> (_keyLock \notin terrainLock \/ ~subscribed)

\* the navigation key holds none of the three locks
KeyFree(tl, ll, nl) == _keyLock \notin tl /\ _keyLock \notin ll /\ _keyLock \notin nl

\* the navigation key holds each of the three locks
KeyHeld(tl, ll, nl) == _keyLock \in tl /\ _keyLock \in ll /\ _keyLock \in nl

\* a wheel event received with no zoom step left locks the three locks and
\* sets stepIndex to stepsCount
WheelTakenStep ==
    wheelLog'.wheels # wheelLog.wheels /\ stepIndex = 0
        => /\ KeyHeld(terrainLock', layerLock', normalMapCreator')
           /\ stepIndex' = stepsCount
           /\ wheelLog'.steps = << >>

\* a wheel event received while zoom steps remain changes nothing
WheelIgnoredStep ==
    wheelLog'.wheels # wheelLog.wheels /\ stepIndex > 0
        => /\ UNCHANGED << stepIndex, _deactivate, terrainLock, layerLock,
                           normalMapCreator, lockLog >>
           /\ wheelLog'.steps = wheelLog.steps

\* a draw with zoom steps left applies one step, the next in order from index 0
ZoomStep ==
    stepIndex > 0 /\ stepIndex' # stepIndex
        => /\ stepIndex' = stepIndex - 1
           /\ Len(wheelLog.steps) = stepsCount - stepIndex
           /\ wheelLog'.steps = Append(wheelLog.steps, Len(wheelLog.steps))

\* the first draw after the last step: the one that resets _deactivate
FirstDrawAfterLastStep == stepIndex = 0 /\ _deactivate /\ ~_deactivate'

\* the original statement of C33: after the first draw that follows the last
\* step the navigation key holds none of the three locks
C33_WheelZoomProtocol_Original ==
    [][/\ WheelTakenStep
       /\ WheelIgnoredStep
       /\ ZoomStep
       /\ FirstDrawAfterLastStep
              => KeyFree(terrainLock', layerLock', normalMapCreator')]_vars

\* C33: wheel-zoom protocol.  A wheel event received while stepIndex = 0 locks
\* the three locks and sets stepIndex = stepsCount; each following draw applies
\* exactly one precomputed step, in order from index 0 to stepsCount - 1; a
\* wheel event received while stepIndex > 0 changes nothing; the first draw
\* after the last step frees the three locks, and they are free after that
\* frame unless the rotation still in progress moved the eye by more than the
\* threshold in it, in which case the frame locked them again, once.
C33_WheelZoomProtocol ==
    [][/\ WheelTakenStep
       /\ WheelIgnoredStep
       /\ ZoomStep
       /\ FirstDrawAfterLastStep
              => \/ KeyFree(terrainLock', layerLock', normalMapCreator')
                 \/ /\ KeyHeld(terrainLock', layerLock', normalMapCreator')
                    /\ lockLog'.relocks[_keyLock] = 1
                    /\ lockLog'.lastFree[1].by = "onDraw"]_vars

\* a wheel zoom went through: two wheel events were received, the five steps
\* were applied in order, and the draw after the last of them freed the locks
C33_Witness ==
    /\ wheelLog = [wheels |-> 2, steps |-> << 0, 1, 2, 3, 4 >>]
    /\ stepIndex = 0 /\ ~_deactivate
    /\ KeyFree(terrainLock, layerLock, normalMapCreator)
    /\ lockLog.lastFree # << >> /\ lockLog.lastFree[1].by = "onDraw"

\* C34: the mouse navigation always locks and frees layerLock, terrainLock and
\* the lock of normalMapCreator together under its key: in every state, so
\* after every handler (onMouseWheel, stopRotation, onDraw), the navigation key
\* holds terrainLock iff it holds layerLock iff it holds the normalMapCreator
\* lock.
C34_ThreeLocksTogether ==
    /\ (_keyLock \in terrainLock) = (_keyLock \in layerLock)
    /\ (_keyLock \in layerLock) = (_keyLock \in normalMapCreator)

\* a handler freed the three locks that the key held: a frame of onDraw freed
\* what a wheel event or a frame had locked, while another key holds terrainLock
C34_Witness ==
    /\ KeyFree(terrainLock, layerLock, normalMapCreator)
    /\ terrainLock # {}
    /\ lockLog.lastFree # << >>
    /\ lockLog.lastFree[1].by = "onDraw"
    /\ _keyLock \in lockLog.lastFree[1].before
    /\ wheelLog.wheels > 0

\* the index k lies in the grid of gs * gs heights
InGrid(cell, k) == k >= 0 /\ k < cell.gs * cell.gs

\* the row of the grid that index k lies in
RowOf(cell, k) == FloorDiv(k, cell.gs)

\* C35: for every point inside the extent of the cache entry, its edges
\* included, the four indices v0..v3 that _getGroundHeight reads lie in
\* [0, gs * gs), v0 and v1 in one row and v2 and v3 in the row above it, and
\* the cell spanned by the corners computed contains the point.
C35_CellIndicesInGrid ==
    \A n \in DOMAIN lastGround :
        LET g == lastGround[n]
            cell == g.cell
        IN  g.inside =>
              /\ InGrid(cell, cell.v0Ind) /\ InGrid(cell, cell.v1Ind)
              /\ InGrid(cell, cell.v2Ind) /\ InGrid(cell, cell.v3Ind)
              /\ RowOf(cell, cell.v0Ind) = RowOf(cell, cell.v1Ind)
              /\ RowOf(cell, cell.v2Ind) = RowOf(cell, cell.v3Ind)
              /\ RowOf(cell, cell.v2Ind) = RowOf(cell, cell.v0Ind) - 1
              /\ isInside([southWest |-> cell.v0, northEast |-> cell.v3],
                          forward(g.lonLat))

\* the same for the points inside the extent but neither on its south edge nor
\* on its east edge
C35_InteriorCellIndicesInGrid ==
    \A n \in DOMAIN lastGround :
        LET g == lastGround[n]
            cell == g.cell
            merc == forward(g.lonLat)
        IN  /\ g.inside
            /\ merc.lat > g.cache.extent.southWest.lat
            /\ merc.lon < g.cache.extent.northEast.lon
            =>
              /\ InGrid(cell, cell.v0Ind) /\ InGrid(cell, cell.v1Ind)
              /\ InGrid(cell, cell.v2Ind) /\ InGrid(cell, cell.v3Ind)
              /\ RowOf(cell, cell.v0Ind) = RowOf(cell, cell.v1Ind)
              /\ RowOf(cell, cell.v2Ind) = RowOf(cell, cell.v3Ind)
              /\ RowOf(cell, cell.v2Ind) = RowOf(cell, cell.v0Ind) - 1
              /\ isInside([southWest |-> cell.v0, northEast |-> cell.v3], merc)

\* C36: for every lonLat and zoom z, getTileXY returns x and y in 0..2^z - 1,
\* the zoom it was given, and the tile group of the latitude band: the north
\* cap above MAX_LAT, the south cap below MIN_LAT, the main band otherwise.
C36_TileXYInRange ==
    \A n \in DOMAIN lastTileXY :
        LET t == lastTileXY[n]
        IN  /\ t.tile[1] \in 0..(Pow2(t.zoom) - 1)
            /\ t.tile[2] \in 0..(Pow2(t.zoom) - 1)
            /\ t.tile[3] = t.zoom
            /\ t.tile[4] = IF t.lonLat.lat > MAX_LAT THEN TILEGROUP_NORTH
                           ELSE IF t.lonLat.lat < MIN_LAT THEN TILEGROUP_SOUTH
                           ELSE TILEGROUP_COMMON

\* the same without the row of the polar tiles: the column, the zoom and the
\* tile group of every point, and the row of the points of the main band
C36_AllButPolarRow ==
    \A n \in DOMAIN lastTileXY :
        LET t == lastTileXY[n]
        IN  /\ t.tile[1] \in 0..(Pow2(t.zoom) - 1)
            /\ t.tile[4] = TILEGROUP_COMMON => t.tile[2] \in 0..(Pow2(t.zoom) - 1)
            /\ t.tile[3] = t.zoom
            /\ t.tile[4] = IF t.lonLat.lat > MAX_LAT THEN TILEGROUP_NORTH
                           ELSE IF t.lonLat.lat < MIN_LAT THEN TILEGROUP_SOUTH
                           ELSE TILEGROUP_COMMON

\* the last frame, if any
LastFrame == mouseLog.frame

\* C37: for one uninterrupted press of a mouse button handleMouseEvents
\* dispatches the down event exactly once, in the first frame that finds the
\* button down, and the hold event in every later frame that finds it down,
\* never both in one frame; after a release the up event is dispatched exactly
\* once, and the frame that dispatches it resets the hold flag.
C37_DownOnceThenHold ==
    /\ mouseLog.downs <= 1
    /\ mouseLog.ups <= 1
    /\ mouseLog.released =>
           mouseLog.ups + (IF mouseState.leftButtonUp THEN 1 ELSE 0) = 1
    /\ \A n \in DOMAIN LastFrame :
           LET f == LastFrame[n]
           IN  /\ ~({ "ldown", "lhold" } \subseteq f.ev)
               /\ f.down /\ f.seen = 0 => "ldown" \in f.ev
               /\ f.down /\ f.seen > 0 => "lhold" \in f.ev

\* C38: down and up events are paired: every ldown dispatched is followed by an
\* lup dispatched before the next ldown, in every sequence of mouse down, up
\* and move events, the moves that report the button up included.
C38_DownUpPaired == ~mouseLog.unpaired

\* the clicks of the history
Clicks == mouseLog.clicks

\* the flags set and not yet dispatched
PendingClick == IF mouseState.leftButtonClick THEN 1 ELSE 0

PendingDoubleClick == IF mouseState.leftButtonDoubleClick THEN 1 ELSE 0

\* the number of clicks that completed a pair
RECURSIVE Doubles(_)
Doubles(clicks) ==
    IF clicks = << >> THEN 0
    ELSE (IF clicks[Len(clicks)].dbl THEN 1 ELSE 0) + Doubles(SubSeq(clicks, 1, Len(clicks) - 1))

\* two clicks within doubleClickDelay make a double click, once: a click
\* completes a pair iff the click before it came no more than doubleClickDelay
\* earlier and did not itself complete a pair
C39_PairsConsumed ==
    \A n \in DOMAIN Clicks :
        Clicks[n].dbl = /\ n > 1
                        /\ ~Clicks[n - 1].dbl
                        /\ Clicks[n].t - Clicks[n - 1].t <= doubleClickDelay

\* every click is dispatched as lclick once, every completed pair as ldblclick
\* once: what was dispatched and what is still flagged add up to the clicks
C39_DispatchedOnce ==
    Len(Clicks) < MaxClicks =>
        /\ mouseLog.lclicks + PendingClick = Len(Clicks)
        /\ mouseLog.ldblclicks + PendingDoubleClick = Doubles(Clicks)

\* C39: double-click detection consumes both clicks: two left clicks within
\* doubleClickDelay produce exactly one ldblclick, dispatched once, and a third
\* quick click does not form a second double click with the second one; each
\* click that pairs or starts a pair is also dispatched as lclick exactly once.
C39_DoubleClickConsumesBoth ==
    C39_PairsConsumed /\ C39_DispatchedOnce

\* the last picking frame, of any instance, if any
LastPicking == pickLog.last

============================================================================
